---------------------------- MODULE Spec2Model ----------------------------
(***************************************************************************)
(* A model of readme-sync: the page/element model (src/src/catalog.js),    *)
(* the content filters (src/src/filters.js), the ReadMe API client         *)
(* (src/src/api-client.js) and the fetch / push commands                   *)
(* (src/unnamed/part_000, the CLI script).                                 *)
(*                                                                         *)
(* Text is a sequence over an alphabet of symbols.  A symbol is either a   *)
(* delimiter character of the markdown link syntax or a whole word (a path *)
(* segment, a host name, a sentinel line); offsets and lengths count       *)
(* symbols, so a replacement that changes the number of symbols shifts the *)
(* offsets of everything behind it, as it does for characters in the code. *)
(***************************************************************************)
EXTENDS Integers, Sequences, FiniteSets, TLC

VARIABLES
    \* ---- filter pipeline (one document through apply / remote / rollback)
    orig,       \* the local document X as loaded by Catalog.build
    page,       \* the Page object currently held by the pipeline
    pipeline,   \* configured filters, in configuration order
    rendered,   \* what the footer template renders to
    baseUrl,    \* hostedFiles' configured baseUrl
    heldPage,   \* the Page object the local catalog holds for the page
    aliased,    \* whether `page` is that very object
    fpc,        \* "apply" | "remote" | "rollback" | "done"
    fidx,       \* index of the next filter to run
    viaRemote,  \* TRUE: the document travels through ReadMe between apply and rollback
    \* ---- push command
    fullCatalog,    \* Catalog.build(dir): every local page, in file order
    file,           \* options.file (<<>> without --file)
    options,        \* [force, dryRun, prune]
    remote,         \* ReadMe: slug -> the stored document, or an absent entry
    tasks,          \* the pushPage calls made so far, each with its position
    mainpc,         \* position of the command's action
    mainidx,        \* index of the next page of the push loop
    failuresLeft,   \* transport failures that may still happen
    exited,         \* "no" | "exit1" (process.exit(1) of a request's .catch) |
                    \* "config" (process.exit(1) of createFilters) | "unhandled" (rejection)
    reports,        \* what the console reported: {<<slug, decision>>}
    walked,         \* pages fetchPages returned to the prune
    pruned,         \* slugs deletePage was called with
    deleteCalls,    \* slug -> "none" | "requested" | "served" | "failed" (DELETE)
    \* ---- fetch command
    disk,           \* the docs directory: path -> sources of the file, <<>> without file
    catalogPages,   \* catalog.pages of the selected local catalog
    written,        \* indices of the fetched pages whose callback has run, in that order
    failed,         \* indices of the fetched pages whose load failed
    stale,          \* staleLocalPages
    answer,         \* the user's answer to the prune question, "none" if not asked
    fetchpc,        \* position of the fetch action
    \* ---- single operations on pages and elements
    called,         \* the operation to call, "idle" if none
    arg,            \* its arguments
    result          \* what it returned, <<>> before the call

fvars == <<orig, page, pipeline, rendered, baseUrl, fpc, fidx, viaRemote, heldPage, aliased>>
pvars == <<fullCatalog, file, options, remote, tasks, mainpc, mainidx, failuresLeft,
           exited, reports, walked, pruned, deleteCalls>>
cvars == <<disk, catalogPages, written, failed, stale, answer, fetchpc>>
uvars == <<called, arg, result>>
vars == <<fvars, pvars, cvars, uvars>>

-----------------------------------------------------------------------------
(* Symbols *)

NL == "NL"          \* line feed
SP == " "
DQ == "DQ"          \* double quote
SQ == "SQ"          \* single quote
SL == "/"
FM == "---"         \* front matter delimiter line
OPEN == "[footer]: #"       \* ContentMarker('footer') opening sentinel
CLOSE == "[/footer]: #"     \* ContentMarker('footer') closing sentinel

Delims == {"!", "[", "]", "(", ")", "<", ">", SP, DQ, SQ, NL}

At(s, i) == IF i \in 1..Len(s) THEN s[i] ELSE "EOF"
Take(s, n) == SubSeq(s, 1, n)
Drop(s, n) == SubSeq(s, n + 1, Len(s))
StartsWith(s, p) == Len(p) <= Len(s) /\ Take(s, Len(p)) = p
Range(s) == {s[i] : i \in 1..Len(s)}

\* End of the maximal run of symbols in S (resp. not in S) that starts at i; i-1 if empty.
RunIn(s, i, S) ==
    CHOOSE j \in (i - 1)..Len(s) :
        /\ \A k \in i..j : s[k] \in S
        /\ (j = Len(s) \/ s[j + 1] \notin S)

RunNotIn(s, i, S) ==
    CHOOSE j \in (i - 1)..Len(s) :
        /\ \A k \in i..j : s[k] \notin S
        /\ (j = Len(s) \/ s[j + 1] \in S)

-----------------------------------------------------------------------------
(* Link elements: Link.findAll and the Link classes *)

\* The end of an attempt of the findLinks pattern: the title is taken if it is
\* closed and followed by ")", and the match is its label, href and title
MatchEnd(s, bang, p, q, r1, h, t1, t2, e0) ==
    LET titled == /\ At(s, t1) \in {DQ, SQ, "("}
                  /\ At(s, t2 + 1) \in {DQ, SQ, ")"}
                  /\ At(s, e0) = ")"
        e    == IF titled THEN e0 ELSE t1
        ok   == /\ At(s, p) = "["
                /\ At(s, q) = "]"
                /\ At(s, q + 1) = "("
                /\ At(s, e) = ")"
    IN  IF ~ok THEN [ok |-> FALSE]
        ELSE [ok |-> TRUE, last |-> e, bang |-> bang,
              label |-> SubSeq(s, p + 1, q - 1),
              href |-> SubSeq(s, r1, h),
              title |-> IF titled THEN SubSeq(s, t1 + 1, t2) ELSE <<>>]

\* ... >?( *["'(](?<title>.*?)["')])? *\) after the href that ends at h
MatchTitle(s, bang, p, q, r1, h) ==
    LET t0   == IF At(s, h + 1) = ">" THEN h + 2 ELSE h + 1
        t1   == RunIn(s, t0, {SP}) + 1
        t2   == RunNotIn(s, t1 + 1, {DQ, SQ, ")", NL})
        e0   == RunIn(s, t2 + 2, {SP}) + 1
    IN  MatchEnd(s, bang, p, q, r1, h, t1, t2, e0)

\* ... \( *<?(?<href>.*?) after the label that ends before q
MatchHref(s, bang, p, q) ==
    LET r0   == RunIn(s, q + 2, {SP}) + 1
        r1   == IF At(s, r0) = "<" THEN r0 + 1 ELSE r0
        h    == RunNotIn(s, r1, Delims)
    IN  MatchTitle(s, bang, p, q, r1, h)

\* One attempt of the findLinks pattern at offset i (1-based):
\*   !?\[(?<label>.*?)]\( *<?(?<href>.*?)>?( *["'(](?<title>.*?)["')])? *\)
\* for texts whose labels hold no bracket, whose hrefs are words and slashes and
\* whose titles hold no quote, where the lazy groups end at the first delimiter.
MatchAt(s, i) ==
    LET bang == At(s, i) = "!"
        p    == IF bang THEN i + 1 ELSE i
        q    == RunNotIn(s, p + 1, {"[", "]", NL}) + 1
    IN  MatchHref(s, bang, p, q)

\* MailtoLink.matches: /@/.test(href)
MailtoMatches(href) == "@" \in Range(href)

\* XrefLink.matches: /^doc:(?<slug>[a-zA-Z0-9-]+)(#(?<anchor>.*))?/ or /^#(?<anchor>.*)/
XrefMatches(href) ==
    \/ At(href, 1) = "doc:" /\ Len(href) >= 2 /\ href[2] \notin {SL, "#", "@"}
    \/ At(href, 1) = "#"

\* new XrefLink(...): slug and anchor as the first matching pattern captures
\* them, "undefined" for a group that took no part in the match
XrefParse(href) ==
    IF At(href, 1) = "doc:"
    THEN [slug |-> href[2],
          anchor |-> IF At(href, 3) = "#" THEN SubSeq(href, 4, Len(href)) ELSE "undefined"]
    ELSE [slug |-> "undefined", anchor |-> SubSeq(href, 2, Len(href))]

\* Mutant of LinkClass: the catch-all class is asked before XrefLink
LinkClassUrlFirst(m) ==
    IF m.bang THEN "Image"
    ELSE IF MailtoMatches(m.href) THEN "MailtoLink"
    ELSE "UrlLink"

\* The class Link.findAll picks for a match
LinkClass(m) ==
    IF m.bang THEN "Image"
    ELSE IF MailtoMatches(m.href) THEN "MailtoLink"
    ELSE IF XrefMatches(m.href) THEN "XrefLink"
    ELSE "UrlLink"

\* Link.findAll: the elements of the serialized form s, scanning from offset i.
\* position is the 0-based offset of the match (match.index).
RECURSIVE FindLinksFrom(_, _)
LinksAfter(s, i, m) ==
    IF m.ok
    THEN <<[type |-> LinkClass(m), text |-> SubSeq(s, i, m.last),
            position |-> i - 1, label |-> m.label,
            href |-> m.href, title |-> m.title]>>
         \o FindLinksFrom(s, m.last + 1)
    ELSE FindLinksFrom(s, i + 1)

FindLinksFrom(s, i) ==
    IF i > Len(s) THEN <<>> ELSE LinksAfter(s, i, MatchAt(s, i))

FindLinks(s) == FindLinksFrom(s, 1)

\* Link.isRemote: /(https?:)?\/\/.*/.test(href), i.e. href holds "//" somewhere
isRemote(href) == \E i \in 1..(Len(href) - 1) : href[i] = SL /\ href[i + 1] = SL
isLocal(href) == ~isRemote(href)

\* UrlLink.markdown / Image.markdown
markdown(el) ==
    (IF el.type = "Image" THEN <<"!">> ELSE <<>>)
    \o <<"[">> \o el.label \o <<"]", "(">> \o el.href
    \o (IF el.title # <<>> THEN <<SP, DQ>> \o el.title \o <<DQ>> ELSE <<>>)
    \o <<")">>

-----------------------------------------------------------------------------
(* Paths and URLs: node's path.join / path.relative, new URL(), decodeURI *)

\* s.split('/'): the segments between slashes, each a sequence of symbols
RECURSIVE SplitSlash(_)
SplitSlash(s) ==
    LET j == RunNotIn(s, 1, {SL})
    IN  IF j = Len(s) THEN <<s>>
        ELSE <<Take(s, j)>> \o SplitSlash(Drop(s, j + 1))

\* segments.join('/')
RECURSIVE JoinSlash(_)
JoinSlash(segs) ==
    IF segs = <<>> THEN <<>>
    ELSE IF Len(segs) = 1 THEN segs[1]
    ELSE segs[1] \o <<SL>> \o JoinSlash(Tail(segs))

\* path's normalizeString: drops "" and ".", lets ".." remove the segment before
\* it; a ".." with nothing to remove is kept only when allowAbove.
RECURSIVE normalizeString(_, _, _)
normalizeString(segs, acc, allowAbove) ==
    IF segs = <<>> THEN acc
    ELSE LET g == Head(segs)
             acc2 == IF g = <<>> \/ g = <<".">> THEN acc
                     ELSE IF g = <<"..">>
                          THEN IF acc # <<>> /\ acc[Len(acc)] # <<"..">>
                               THEN Take(acc, Len(acc) - 1)
                               ELSE IF allowAbove THEN Append(acc, g) ELSE acc
                          ELSE Append(acc, g)
         IN  normalizeString(Tail(segs), acc2, allowAbove)

\* path.join(a, b) for a non-empty relative a: zero-length arguments are skipped,
\* the rest is joined with "/" and normalized (posix).
pathJoin(a, b) ==
    LET joined == IF b = <<>> THEN a ELSE a \o <<SL>> \o b
        segs   == normalizeString(SplitSlash(joined), <<>>, TRUE)
        body   == JoinSlash(segs)
    IN  IF body = <<>> THEN <<".">>
        ELSE IF joined[Len(joined)] = SL THEN body \o <<SL>> ELSE body

\* The working directory path.relative resolves relative paths against
Cwd == <<"cwd">>

\* path.resolve(p) for a relative p, as its list of segments below the root
pathResolve(p) == normalizeString(<<Cwd>> \o SplitSlash(p), <<>>, FALSE)

\* Length of the longest common prefix of two segment lists
CommonLen(a, b) ==
    CHOOSE n \in 0..Len(a) :
        /\ n <= Len(b)
        /\ Take(a, n) = Take(b, n)
        /\ (n = Len(a) \/ n = Len(b) \/ a[n + 1] # b[n + 1])

\* path.relative(from, to)
pathRelative(from, to) ==
    LET f == pathResolve(from)
        t == pathResolve(to)
        n == CommonLen(f, t)
    IN  JoinSlash([i \in 1..(Len(f) - n) |-> <<"..">>] \o Drop(t, n))

\* Percent-encoding of one symbol by the URL serializer, and decodeURI on one symbol
UrlEncode(w) == IF w = "a b.png" THEN "a%20b.png" ELSE w
DecodeURIWord(w) == IF w = "a%20b.png" THEN "a b.png" ELSE w
decodeURI(s) == [i \in 1..Len(s) |-> DecodeURIWord(s[i])]

\* The path of a URL being parsed: "." is dropped, ".." removes the last segment
\* (none at the root); a final "." or ".." leaves an empty last segment.
RECURSIVE UrlPath(_, _)
UrlPath(segs, acc) ==
    IF segs = <<>> THEN acc
    ELSE LET g == Head(segs)
             last == Len(segs) = 1
             shorter == IF acc = <<>> THEN acc ELSE Take(acc, Len(acc) - 1)
             acc2 == IF g = <<"..">>
                     THEN IF last THEN Append(shorter, <<>>) ELSE shorter
                     ELSE IF g = <<".">>
                          THEN IF last THEN Append(acc, <<>>) ELSE acc
                          ELSE Append(acc, [i \in 1..Len(g) |-> UrlEncode(g[i])])
         IN  UrlPath(Tail(segs), acc2)

\* The scheme and host of a base URL ("https:", "/", "/", host) and its path
UrlOrigin(base) == Take(base, 4)
UrlBasePath(base) == Tail(SplitSlash(Drop(base, 4)))

\* new URL(rel, base).toString() for a path-relative rel (no scheme, no leading "/")
newURL(rel, base) ==
    LET bp == UrlBasePath(base)
        start == IF bp = <<>> THEN <<>> ELSE Take(bp, Len(bp) - 1)
    IN  UrlOrigin(base) \o <<SL>> \o JoinSlash(UrlPath(SplitSlash(rel), start))

-----------------------------------------------------------------------------
(* Page: src/src/catalog.js *)

\* Header values are JavaScript values: "undefined", the booleans "false" and
\* "true", and the string 'true' ("str:true") that parsing `hidden: "true"` gives.
Truthy(v) == v \in {"true", "str:true"}

\* get hidden()
hidden(headers) == IF headers.hidden = "undefined" THEN "false" ELSE headers.hidden

\* Mutant of sources: the hidden entry is written whatever the flag
sourcesHiddenAlways(headers, content) ==
    <<FM, NL, "title:", SP, DQ, headers.title, DQ, NL,
      "excerpt:", SP, DQ, headers.excerpt, DQ, NL>>
    \o <<"hidden:", SP, DQ, (IF Truthy(hidden(headers)) THEN "true" ELSE "false"), DQ, NL>>
    \o <<FM, NL>> \o content

\* get sources(): the front matter block, then the content
sources(headers, content) ==
    <<FM, NL, "title:", SP, DQ, headers.title, DQ, NL,
      "excerpt:", SP, DQ, headers.excerpt, DQ, NL>>
    \o (IF Truthy(hidden(headers)) THEN <<"hidden:", SP, DQ, "true", DQ, NL>> ELSE <<>>)
    \o <<FM, NL>> \o content

\* get directory(): path.join(category) or path.join(category, parent)
directory(pg) ==
    IF pg.parent = "null" THEN <<pg.category>> ELSE <<pg.category, SL, pg.parent>>

\* get path(): path.join(...parentDirectories, filename)
path(pg) == directory(pg) \o <<SL, pg.slug, ".md">>

\* buildIndex(): the link elements of the page's serialized form (heading
\* elements are not read by any operation modelled here and are left out)
buildIndex(headers, content) == FindLinks(sources(headers, content))

\* new Page(category, parent, slug, content, headers)
Page(category, parent, slug, content, headers) ==
    [category |-> category, parent |-> parent, slug |-> slug,
     content |-> content, headers |-> headers,
     elements |-> buildIndex(headers, content)]

\* The value a front matter line `key: "value"` gives, "undefined" without the line
MatterValue(header, key) ==
    IF key \notin Range(header) THEN "undefined"
    ELSE LET k == CHOOSE i \in 1..Len(header) : header[i] = key
         IN  At(header, k + 3)

\* gray-matter on a serialized form: the data of the block between the first
\* line and the next delimiter line, and the content after that line
frontMatter(src) ==
    LET c == CHOOSE i \in 3..Len(src) :
                 /\ src[i] = FM /\ src[i - 1] = NL
                 /\ \A j \in 3..(i - 1) : ~(src[j] = FM /\ src[j - 1] = NL)
        header == SubSeq(src, 2, c - 1)
    IN  [content |-> IF At(src, c + 1) = NL THEN Drop(src, c + 1) ELSE Drop(src, c),
         data |-> [title |-> MatterValue(header, "title:"),
                   excerpt |-> MatterValue(header, "excerpt:"),
                   hidden |-> IF MatterValue(header, "hidden:") = "undefined"
                              THEN "undefined" ELSE "str:true",
                   next |-> <<>>]]

\* Page.create({category, parent, slug, sources})
PageCreate(category, parent, slug, src) ==
    LET matter == frontMatter(src)
    IN  Page(category, parent, slug, matter.content, matter.data)

\* Element.replace(sources, byText): substr(0, position) + byText + substr(position + text.length)
ElementReplace(src, el, byText) ==
    LET pos == IF el.position > Len(src) THEN Len(src) ELSE el.position
        to  == IF el.position + Len(el.text) > Len(src) THEN Len(src)
               ELSE el.position + Len(el.text)
    IN  Take(src, pos) \o byText \o Drop(src, to)

\* Mutant of SortDescending: the batch is taken in the order given
SortNone(reps) == reps

\* replacements.sort(([el1], [el2]) => el2.position - el1.position): descending position
RECURSIVE SortDescending(_)
SortDescending(reps) ==
    IF reps = <<>> THEN <<>>
    ELSE LET m == CHOOSE i \in 1..Len(reps) :
                      /\ \A j \in 1..Len(reps) : reps[j][1].position <= reps[i][1].position
                      /\ \A j \in 1..(i - 1) : reps[j][1].position < reps[i][1].position
         IN  <<reps[m]>> \o SortDescending(Take(reps, m - 1) \o Drop(reps, m))

\* The reduce of replaceElements: each pair rewrites the string the previous one left
RECURSIVE ReduceReplace(_, _)
ReduceReplace(reps, src) ==
    IF reps = <<>> THEN src
    ELSE ReduceReplace(Tail(reps), ElementReplace(src, reps[1][1], markdown(reps[1][2])))

\* replaceElements(replacements): a new page parsed from the rewritten sources
replaceElements(pg, reps) ==
    PageCreate(pg.category, pg.parent, pg.slug,
               ReduceReplace(SortDescending(reps), sources(pg.headers, pg.content)))

\* edit(content): sets the content of this very page; the elements stay as built
edit(pg, content) == [pg EXCEPT !.content = content]

-----------------------------------------------------------------------------
(* Filters: src/src/filters.js *)

\* link.copy({href}): the same link with another href
copy(el, href) == [el EXCEPT !.href = href]

\* Mutant of isUrlLink: every link passes for a url link
isUrlLinkAny(el) == TRUE

isUrlLink(el) == el.type \in {"UrlLink", "Image"}      \* link instanceof UrlLink

\* HostedFilesFilter.apply: the links it replaces
ApplyLinks(pg) == SelectSeq(pg.elements, LAMBDA l : isUrlLink(l) /\ isLocal(l.href))

\* HostedFilesFilter.apply
HostedFilesApply(pg, base) ==
    LET links == ApplyLinks(pg)
        reps  == [i \in 1..Len(links) |->
                    <<links[i],
                      copy(links[i], newURL(pathJoin(directory(pg), links[i].href), base))>>]
    IN  replaceElements(pg, reps)

\* HostedFilesFilter.rollback: the links it replaces
RollbackLinks(pg, base) ==
    SelectSeq(pg.elements,
              LAMBDA l : isUrlLink(l) /\ isRemote(l.href) /\ StartsWith(l.href, base))

\* HostedFilesFilter.rollback
HostedFilesRollback(pg, base) ==
    LET links == RollbackLinks(pg, base)
        reps  == [i \in 1..Len(links) |->
                    <<links[i],
                      copy(links[i],
                           pathRelative(directory(pg),
                                        decodeURI(Drop(links[i].href, Len(base)))))>>]
    IN  replaceElements(pg, reps)

\* ContentMarker.wrap
wrap(content) == <<NL, OPEN, NL>> \o content \o <<NL, NL, CLOSE>>

\* Mutant of MarkerRemoveAll: a pattern without its leading \n, which leaves the
\* newline that precedes the opening sentinel
MarkerRemoveAllKeepNewline(content) ==
    LET opens  == {i \in 1..(Len(content) - 1) : content[i] = NL /\ content[i + 1] = OPEN}
        first  == CHOOSE i \in opens : \A j \in opens : i <= j
        closes == {j \in 1..Len(content) : content[j] = CLOSE /\ j > first + 1}
        last   == CHOOSE j \in closes : \A k \in closes : k <= j
    IN  IF opens = {} \/ closes = {} THEN content
        ELSE Take(content, first) \o Drop(content, last)

\* ContentMarker.replaceAll(content, () => ''): the pattern
\*   \n\[footer\]: #((.|[\r\n])*)\[\/footer\]: #
\* matches from the first opening sentinel line to the last closing sentinel
MarkerRemoveAll(content) ==
    LET opens  == {i \in 1..(Len(content) - 1) : content[i] = NL /\ content[i + 1] = OPEN}
        first  == CHOOSE i \in opens : \A j \in opens : i <= j
        closes == {j \in 1..Len(content) : content[j] = CLOSE /\ j > first + 1}
        last   == CHOOSE j \in closes : \A k \in closes : k <= j
    IN  IF opens = {} \/ closes = {} THEN content
        ELSE Take(content, first - 1) \o Drop(content, last)

\* FooterFilter.apply, with what Mustache rendered from the template
FooterApply(pg, text) == edit(pg, pg.content \o wrap(text))

\* FooterFilter.rollback
FooterRollback(pg) == edit(pg, MarkerRemoveAll(pg.content))

-----------------------------------------------------------------------------
(* Conversions of the API client: src/src/api-client.js *)

\* catalog.find(Page.bySlug(slug)): the first page with the slug, if any
HasSlug(catalog, slug) == \E i \in 1..Len(catalog) : catalog[i].slug = slug
FindBySlug(catalog, slug) ==
    catalog[CHOOSE i \in 1..Len(catalog) :
                /\ catalog[i].slug = slug
                /\ \A j \in 1..(i - 1) : catalog[j].slug # slug]

\* Mutant of pageToJson: every declared slug gives an entry, named by the slug
pageToJsonUnresolved(pg, catalog) ==
    [title |-> pg.headers.title, excerpt |-> pg.headers.excerpt,
     hidden |-> hidden(pg.headers), body |-> pg.content,
     next |-> [i \in 1..Len(pg.headers.next) |->
                 [slug |-> pg.headers.next[i], name |-> pg.headers.next[i],
                  type |-> "doc"]]]

\* Api.pageToJson(page): next.pages holds one entry per slug found in the catalog
pageToJson(pg, catalog) ==
    LET found == SelectSeq(pg.headers.next, LAMBDA sl : HasSlug(catalog, sl))
    IN  [title |-> pg.headers.title, excerpt |-> pg.headers.excerpt,
         hidden |-> hidden(pg.headers), body |-> pg.content,
         next |-> [i \in 1..Len(found) |->
                     [slug |-> FindBySlug(catalog, found[i]).slug,
                      name |-> FindBySlug(catalog, found[i]).headers.title,
                      type |-> "doc"]]]

\* Api.jsonToPage(json, category, parent), json.slug given apart
jsonToPage(json, slug, category, parent) ==
    Page(category, parent, slug, json.body,
         [title |-> json.title, excerpt |-> json.excerpt, hidden |-> json.hidden,
          next |-> [i \in 1..Len(json.next) |-> json.next[i].slug]])

\* ReadMe stores a body without its last newline (comment of Page.hashData)
StripLastNewline(body) ==
    IF body # <<>> /\ body[Len(body)] = NL THEN Take(body, Len(body) - 1) ELSE body

-----------------------------------------------------------------------------
(* One document through the filter pipeline *)

MaxBlocks == 2      \* blocks (lines) in a document body

\* No single operation is called
NoCall == called = "idle" /\ arg = <<>> /\ result = <<>>

\* The fetch command's state while it does not run
FetchIdle ==
    /\ disk = <<>> /\ catalogPages = <<>> /\ written = <<>> /\ failed = {} /\ stale = <<>>
    /\ answer = "none" /\ fetchpc = "idle"

\* The push command's state while only the filter pipeline runs
PushIdle ==
    /\ fullCatalog = <<>> /\ file = "none"
    /\ options = [force |-> FALSE, dryRun |-> FALSE, prune |-> FALSE]
    /\ remote = <<>> /\ tasks = <<>> /\ mainpc = "idle" /\ mainidx = 1
    /\ failuresLeft = 0 /\ exited = "no" /\ reports = {}
    /\ walked = <<>> /\ pruned = {} /\ deleteCalls = <<>>

Cdn == <<"https:", SL, SL, "cdn.example.com", SL>>
BaseUrls == {Cdn, Cdn \o <<"repo", SL>>}

\* The lines a body is made of
Blocks ==
    { <<"text", NL>>,
      <<OPEN, NL>>,
      <<"!", "[", "x", "]", "(", "a.png", ")", NL>>,
      <<"see", SP, "!", "[", "x", "]", "(", "sub", SL, "b.png", ")", NL>>,
      <<"[", "x", "]", "(", ".", SL, "a.png", ")", NL>>,
      <<"[", "x", "]", "(", "a.png", SP, DQ, "t", DQ, ")", NL>>,
      <<"[", "x", "]", "(", "https:", SL, SL, "other.example", SL, "c.png", ")", NL>>,
      <<"[", "x", "]", "(", "doc:", "foo", ")", SP,
        "[", "m", "]", "(", "me", "@", "x.org", ")", NL>> }

RECURSIVE Concat(_)
Concat(ss) == IF ss = <<>> THEN <<>> ELSE Head(ss) \o Concat(Tail(ss))

Bodies == UNION { {Concat(bs) : bs \in [1..n -> Blocks]} : n \in 0..MaxBlocks }

\* What the footer template renders to: plain text, or a link to a hosted file
Templates == { <<"Hello">>,
               <<"[", "logo", "]", "(">> \o Cdn \o <<"repo", SL, "logo.png", ")">> }

FilterNames == {"hostedFiles", "footer"}
Pipelines == { <<"hostedFiles">>, <<"footer">>,
               <<"hostedFiles", "footer">>, <<"footer", "hostedFiles">> }

LocalDocs ==
    { Page("cat", par, "page", body,
           [title |-> "T", excerpt |-> "E", hidden |-> hid, next |-> <<>>]) :
        par \in {"null", "par"}, hid \in {"undefined", "true"}, body \in Bodies }

InitFilter ==
    /\ orig \in LocalDocs
    /\ page = orig
    /\ pipeline \in Pipelines
    /\ rendered \in Templates
    /\ baseUrl \in BaseUrls
    /\ viaRemote \in BOOLEAN
    /\ fpc = "apply"
    /\ fidx = 1
    /\ heldPage = orig
    /\ aliased = TRUE
    /\ PushIdle
    /\ FetchIdle
    /\ NoCall

\* Mutant of FilterAt: the filters are taken from the last to the first
FilterAtReversed(config, idx) == config[Len(config) + 1 - idx]

\* `for (const filter of createFilters(options.config))`: the filters in the
\* order of the names in the configuration
FilterAt(config, idx) == config[idx]

\* push: `page = await filter.apply(page)` for the next configured filter.
\* HostedFilesFilter returns the page Page.create built; FooterFilter returns
\* the page it was given, after `this.content = content` of Page.edit
ApplyHostedFiles ==
    /\ fpc = "apply" /\ fidx <= Len(pipeline) /\ FilterAt(pipeline, fidx) = "hostedFiles"
    /\ page' = HostedFilesApply(page, baseUrl)
    /\ fidx' = fidx + 1
    /\ aliased' = FALSE
    /\ UNCHANGED <<orig, pipeline, rendered, baseUrl, fpc, viaRemote, heldPage, pvars, cvars, uvars>>

ApplyFooter ==
    /\ fpc = "apply" /\ fidx <= Len(pipeline) /\ FilterAt(pipeline, fidx) = "footer"
    /\ page' = FooterApply(page, rendered)
    /\ fidx' = fidx + 1
    /\ heldPage' = (IF aliased THEN page' ELSE heldPage)
    /\ UNCHANGED <<orig, pipeline, rendered, baseUrl, fpc, viaRemote, aliased, pvars, cvars, uvars>>

\* The filtered page is pushed (pageToJson), stored by ReadMe and fetched
\* again (jsonToPage) under the same category and parent
ThroughRemote ==
    /\ fpc = "apply" /\ fidx > Len(pipeline) /\ viaRemote
    /\ LET json == pageToJson(page, <<orig>>)
           stored == [json EXCEPT !.body = StripLastNewline(json.body)]
       IN  page' = jsonToPage(stored, page.slug, page.category, page.parent)
    /\ fpc' = "rollback"
    /\ fidx' = 1
    /\ aliased' = FALSE
    /\ UNCHANGED <<orig, pipeline, rendered, baseUrl, viaRemote, heldPage, pvars, cvars, uvars>>

\* rollback is called on the very page apply returned
Directly ==
    /\ fpc = "apply" /\ fidx > Len(pipeline) /\ ~viaRemote
    /\ fpc' = "rollback"
    /\ fidx' = 1
    /\ UNCHANGED <<orig, page, pipeline, rendered, baseUrl, viaRemote, heldPage, aliased,
                   pvars, cvars, uvars>>

\* fetch: `page = await filter.rollback(page)` for the next configured filter
RollbackHostedFiles ==
    /\ fpc = "rollback" /\ fidx <= Len(pipeline) /\ FilterAt(pipeline, fidx) = "hostedFiles"
    /\ page' = HostedFilesRollback(page, baseUrl)
    /\ fidx' = fidx + 1
    /\ aliased' = FALSE
    /\ UNCHANGED <<orig, pipeline, rendered, baseUrl, fpc, viaRemote, heldPage, pvars, cvars, uvars>>

RollbackFooter ==
    /\ fpc = "rollback" /\ fidx <= Len(pipeline) /\ FilterAt(pipeline, fidx) = "footer"
    /\ page' = FooterRollback(page)
    /\ fidx' = fidx + 1
    /\ heldPage' = (IF aliased THEN page' ELSE heldPage)
    /\ UNCHANGED <<orig, pipeline, rendered, baseUrl, fpc, viaRemote, aliased, pvars, cvars, uvars>>

\* fetch: page.writeTo(dir) after the last rollback
WriteTo ==
    /\ fpc = "rollback" /\ fidx > Len(pipeline)
    /\ fpc' = "done"
    /\ UNCHANGED <<orig, page, pipeline, rendered, baseUrl, fidx, viaRemote, heldPage, aliased,
                   pvars, cvars, uvars>>

NextFilter ==
    \/ ApplyHostedFiles \/ ApplyFooter \/ ThroughRemote \/ Directly
    \/ RollbackHostedFiles \/ RollbackFooter \/ WriteTo

SpecFilter == InitFilter /\ [][NextFilter]_vars

Serialized(pg) == sources(pg.headers, pg.content)

-----------------------------------------------------------------------------
(* The push command: src/unnamed/part_000 (push action), src/src/api-client.js *)

MaxPages == 2       \* local pages, taken from AllPages in order
MaxFailures == 1    \* transport failures in one run
MaxTasks == 4       \* pushPage calls in one run

\* Mutant of hashData: the hidden flag is left out of the digest input
hashDataNoHidden(pg) ==
    <<pg.headers.title, NL, pg.headers.excerpt, NL>>
    \o (IF pg.content # <<>> /\ pg.content[Len(pg.content)] = NL
        THEN SubSeq(pg.content, 1, Len(pg.content) - 1) ELSE pg.content)

\* get hashData(): title, excerpt, hidden and the content without its last
\* newline, joined by "\n"; true and 'true' both print as true
HiddenString(v) == IF v = "str:true" THEN "true" ELSE v
hashData(pg) ==
    <<pg.headers.title, NL, pg.headers.excerpt, NL, HiddenString(hidden(pg.headers)), NL>>
    \o StripLastNewline(pg.content)

\* get hash(): the sha1 digest of hashData, taken as injective
hash(pg) == hashData(pg)

LocalPage(category, parent, slug, version) ==
    Page(category, parent, slug, <<version, NL>>,
         [title |-> slug, excerpt |-> "E", hidden |-> "undefined", next |-> <<>>])

\* docs/cat/a.md, docs/cat/a/b.md, docs/misc/c.md
AllPages == << LocalPage("cat", "null", "a", "v1"),
               LocalPage("cat", "a", "b", "v1"),
               LocalPage("misc", "null", "c", "v1") >>

\* The catalogs of a run: all pages, or the directory of a without a.md, or
\* the single file docs/cat/a/a.md, which Page.readFrom reads as the page a
\* with parent a
Catalogs ==
    { SubSeq(AllPages, k, MaxPages) : k \in 1..2 }
    \cup { <<LocalPage("cat", "a", "a", "v1")>> }

\* listCategories(options.categories, options.config)
Categories == <<"cat">>

\* Page.inCategories(categories)
inCategories(pg) == pg.category \in Range(Categories)

\* selectPages(catalog, options) without --staged-only: Page.byPath(options.file)
\* with --file, Page.inCategories(...) otherwise
selectPages(catalog) ==
    IF file # <<>> THEN SelectSeq(catalog, LAMBDA pg : path(pg) = file)
    ELSE SelectSeq(catalog, inCategories)

\* The catalog the push loop runs over
Selected == selectPages(fullCatalog)

\* Documents on ReadMe
RemoteSlugs == <<"a", "b", "c", "r">>
NoJson == [title |-> "", excerpt |-> "", hidden |-> "false", body |-> <<>>, next |-> <<>>]
Absent == [present |-> FALSE, id |-> "none", category |-> "", parent |-> "null", json |-> NoJson]

\* What ReadMe stores for a posted or put payload; a posted page gets its
\* identifier (_id) from ReadMe
Stored(json, category, parent) ==
    [present |-> TRUE, id |-> "id1", category |-> category, parent |-> parent,
     json |-> [json EXCEPT !.body = StripLastNewline(json.body)]]

StoredPage(category, parent, slug, version) ==
    [Stored(pageToJson(LocalPage(category, parent, slug, version), AllPages), category, parent)
        EXCEPT !.id = "id0"]

\* The remote states a run may start from: each local page absent, stored as it
\* is locally, or stored with other content; b possibly as a root page; a
\* remote-only page r possibly present
InitialRemotes ==
    { [sl \in Range(RemoteSlugs) |->
          CASE sl = "a" -> ra [] sl = "b" -> rb [] sl = "r" -> rr [] OTHER -> Absent] :
        ra \in {Absent, StoredPage("cat", "null", "a", "v1"), StoredPage("cat", "null", "a", "v0")},
        rb \in {Absent, StoredPage("cat", "a", "b", "v1"), StoredPage("cat", "null", "b", "v0")},
        rr \in {Absent, StoredPage("cat", "null", "r", "v1")} }

\* A remote child has its parent
Consistent(rem) ==
    \A sl \in DOMAIN rem :
        (rem[sl].present /\ rem[sl].parent # "null") => rem[rem[sl].parent].present

FilterIdle ==
    /\ orig = <<>> /\ page = <<>> /\ pipeline = <<>> /\ rendered = <<>>
    /\ baseUrl = <<>> /\ fpc = "idle" /\ fidx = 1 /\ viaRemote = FALSE
    /\ heldPage = <<>> /\ aliased = FALSE

\* The filters sections of the configuration files the commands are run with: no
\* filter, or a name that is no filter
Configs == {<<>>, <<"nosuch">>}

\* createFilters: `if (!(filterName in availableFilters))` holds for no name
KnownFilters(config) == \A i \in 1..Len(config) : config[i] \in FilterNames

\* A command runs on the configuration: no document is walked through the
\* pipeline on its own
Configured ==
    /\ orig = <<>> /\ page = <<>> /\ pipeline \in Configs /\ rendered = <<>>
    /\ baseUrl = <<>> /\ fpc = "idle" /\ fidx = 1 /\ viaRemote = FALSE
    /\ heldPage = <<>> /\ aliased = FALSE

InitPush ==
    /\ Configured
    /\ fullCatalog \in Catalogs
    /\ file \in {<<>>, path(AllPages[2]), <<"cat", SL, "none.md">>}
    /\ options \in [force : BOOLEAN, dryRun : BOOLEAN, prune : BOOLEAN]
    /\ remote \in {rem \in InitialRemotes : Consistent(rem)}
    /\ tasks = <<>>
    /\ mainpc = "loop"
    /\ mainidx = 1
    /\ failuresLeft \in {0, MaxFailures}
    /\ exited = "no"
    /\ reports = {}
    /\ walked = <<>>
    /\ pruned = {}
    /\ deleteCalls = [sl \in Range(RemoteSlugs) |-> "none"]
    /\ FetchIdle
    /\ NoCall

Running == exited = "no"
Settled(t) == tasks[t].pc \in {"done", "rejected"}

\* Mutant of updatePayload: the PUT body is built from the local page alone
updatePayloadFresh(loaded, localPage, catalog) ==
    [id |-> "none", category |-> localPage.category, parentDoc |-> localPage.parent,
     json |-> pageToJson(localPage, catalog), lastUpdatedHash |-> hash(localPage)]

\* updatePage: Object.assign(pageJson, {...this.pageToJson(localPage),
\* lastUpdatedHash: localPage.hash}), the loaded page with the local fields
\* written over it
updatePayload(loaded, localPage, catalog) ==
    [id |-> loaded.id, category |-> loaded.category, parentDoc |-> loaded.parent,
     json |-> pageToJson(localPage, catalog), lastUpdatedHash |-> hash(localPage)]

\* No PUT body is built yet
NoPayload ==
    [id |-> "none", category |-> "", parentDoc |-> "null", json |-> NoJson,
     lastUpdatedHash |-> <<>>]

\* A pushPage(localPage) call: loadPage(localPage.slug) is requested at once
NewTask(slug, main) ==
    [slug |-> slug, pc |-> "lookup", lookup |-> "pending", issued |-> "none",
     child |-> 0, main |-> main, pageJson |-> NoJson, parentDoc |-> "null",
     payload |-> NoPayload]

LocalOf(slug) == FindBySlug(fullCatalog, slug)

Report(slug, what) == reports' = reports \cup {<<slug, what>>}

\* Mutant of PushDecision: the hashes are not compared
PushAlways(force, remoteHash, localHash) == "update"

\* pushPage's choice once the remote page is loaded:
\*   if (!this.options.force && remotePage.hash === localPage.hash) return;
PushDecision(force, remoteHash, localHash) ==
    IF ~force /\ remoteHash = localHash THEN "unchanged" ELSE "update"

\* push action: `readme.pushPage(page)` for the next selected page, not awaited
\* (no filter is configured in this run)
MainPush ==
    /\ Running /\ mainpc = "loop" /\ mainidx <= Len(Selected)
    /\ KnownFilters(pipeline)
    /\ tasks' = Append(tasks, NewTask(Selected[mainidx].slug, TRUE))
    /\ mainidx' = mainidx + 1
    /\ UNCHANGED <<fvars, uvars, cvars, fullCatalog, file, options, remote, mainpc, failuresLeft,
                   exited, reports, walked, pruned, deleteCalls>>

\* push action: createFilters(options.config), called for the page of the loop,
\* finds an unknown filter name and calls process.exit(1)
MainConfigError ==
    /\ Running /\ mainpc = "loop" /\ mainidx <= Len(Selected)
    /\ ~KnownFilters(pipeline)
    /\ exited' = "config"
    /\ UNCHANGED <<fvars, uvars, cvars, fullCatalog, file, options, remote, tasks, mainpc,
                   mainidx, failuresLeft, reports, walked, pruned, deleteCalls>>

\* push action: `if (catalog.length === 0) return;`
MainNothingToPush ==
    /\ Running /\ mainpc = "loop" /\ Len(Selected) = 0
    /\ mainpc' = "end"
    /\ UNCHANGED <<fvars, uvars, cvars, fullCatalog, file, options, remote, tasks, mainidx,
                   failuresLeft, exited, reports, walked, pruned, deleteCalls>>

\* push action: the loop is over; with --prune the remote pages are fetched next
MainLoopDone ==
    /\ Running /\ mainpc = "loop" /\ Len(Selected) > 0 /\ mainidx > Len(Selected)
    /\ mainpc' = IF options.prune THEN "pruneFetch" ELSE "end"
    /\ UNCHANGED <<fvars, uvars, cvars, fullCatalog, file, options, remote, tasks, mainidx,
                   failuresLeft, exited, reports, walked, pruned, deleteCalls>>

\* pushPage: loadPage answered 200 and the hashes agree without --force
LookupUnchanged(t) ==
    /\ Running /\ tasks[t].pc = "lookup" /\ remote[tasks[t].slug].present
    /\ LET remotePage == jsonToPage(remote[tasks[t].slug].json, tasks[t].slug, "", "null")
       IN  PushDecision(options.force, hash(remotePage), hash(LocalOf(tasks[t].slug)))
               = "unchanged"
    /\ tasks' = [tasks EXCEPT ![t].pc = "done", ![t].lookup = "same",
                               ![t].pageJson = remote[tasks[t].slug].json]
    /\ Report(tasks[t].slug, "unchanged")
    /\ UNCHANGED <<fvars, uvars, cvars, fullCatalog, file, options, remote, mainpc, mainidx,
                   failuresLeft, exited, walked, pruned, deleteCalls>>

\* pushPage: loadPage answered 200 and updatePage is called (not awaited):
\* a dry run only reports, otherwise the PUT is requested
LookupUpdate(t) ==
    /\ Running /\ tasks[t].pc = "lookup" /\ remote[tasks[t].slug].present
    /\ LET remotePage == jsonToPage(remote[tasks[t].slug].json, tasks[t].slug, "", "null")
       IN  PushDecision(options.force, hash(remotePage), hash(LocalOf(tasks[t].slug)))
               = "update"
    /\ IF options.dryRun
       THEN /\ tasks' = [tasks EXCEPT ![t].pc = "done", ![t].lookup = "differs",
                                      ![t].pageJson = remote[tasks[t].slug].json]
            /\ Report(tasks[t].slug, "would update")
       ELSE /\ tasks' = [tasks EXCEPT ![t].pc = "put", ![t].lookup = "differs",
                                      ![t].issued = "PUT",
                                      ![t].pageJson = remote[tasks[t].slug].json,
                                      ![t].parentDoc = remote[tasks[t].slug].parent,
                                      ![t].payload = updatePayload(remote[tasks[t].slug],
                                                         LocalOf(tasks[t].slug), fullCatalog)]
            /\ UNCHANGED reports
    /\ UNCHANGED <<fvars, uvars, cvars, fullCatalog, file, options, remote, mainpc, mainidx,
                   failuresLeft, exited, walked, pruned, deleteCalls>>

\* pushPage: loadPage answered 404 and createPage is called (not awaited);
\* createPage requests the category first
LookupNotFound(t) ==
    /\ Running /\ tasks[t].pc = "lookup" /\ ~remote[tasks[t].slug].present
    /\ tasks' = [tasks EXCEPT ![t].pc = "category", ![t].lookup = "notfound"]
    /\ UNCHANGED <<fvars, uvars, cvars, fullCatalog, file, options, remote, mainpc, mainidx,
                   failuresLeft, exited, reports, walked, pruned, deleteCalls>>

\* pushPage: loadPage failed otherwise; `catch (e)` does nothing for it
LookupFails(t) ==
    /\ Running /\ tasks[t].pc = "lookup" /\ failuresLeft > 0
    /\ failuresLeft' = failuresLeft - 1
    /\ tasks' = [tasks EXCEPT ![t].pc = "done", ![t].lookup = "failed"]
    /\ UNCHANGED <<fvars, uvars, cvars, fullCatalog, file, options, remote, mainpc, mainidx,
                   exited, reports, walked, pruned, deleteCalls>>

\* A rejection of createPage, which nobody awaits: the page is given up, and the
\* runtime either goes on (a warning) or ends the process
Rejected(t) ==
    /\ tasks' = [tasks EXCEPT ![t].pc = "rejected"]
    /\ exited' \in {"no", "unhandled"}

\* Mutant of RequestPost: the dry-run option is not looked at
RequestPostAlways(t) ==
    /\ tasks' = [tasks EXCEPT ![t].pc = "post", ![t].issued = "POST"]
    /\ UNCHANGED reports

\* createPage after the POST request is built: a dry run only reports
RequestPost(t) ==
    IF options.dryRun
    THEN /\ tasks' = [tasks EXCEPT ![t].pc = "done"]
         /\ Report(tasks[t].slug, "would create")
    ELSE /\ tasks' = [tasks EXCEPT ![t].pc = "post", ![t].issued = "POST"]
         /\ UNCHANGED reports

\* createPage: the category is loaded and the page has no parent
CategoryLoadedNoParent(t) ==
    /\ Running /\ tasks[t].pc = "category"
    /\ LocalOf(tasks[t].slug).parent = "null"
    /\ RequestPost(t)
    /\ UNCHANGED <<fvars, uvars, cvars, fullCatalog, file, options, remote, mainpc, mainidx,
                   failuresLeft, exited, walked, pruned, deleteCalls>>

\* createPage: the category is loaded; ensurePageExists(parent) calls pushPage
\* for the parent found in the catalog and awaits it
CategoryLoadedEnsureParent(t) ==
    /\ Running /\ tasks[t].pc = "category"
    /\ LocalOf(tasks[t].slug).parent # "null"
    /\ HasSlug(fullCatalog, LocalOf(tasks[t].slug).parent)
    /\ Len(tasks) < MaxTasks
    /\ tasks' = Append([tasks EXCEPT ![t].pc = "awaitParent", ![t].child = Len(tasks) + 1],
                       NewTask(LocalOf(tasks[t].slug).parent, FALSE))
    /\ UNCHANGED <<fvars, uvars, cvars, fullCatalog, file, options, remote, mainpc, mainidx,
                   failuresLeft, exited, reports, walked, pruned, deleteCalls>>

\* createPage: ensurePageExists throws, the parent is not in the local catalog
CategoryLoadedNoLocalParent(t) ==
    /\ Running /\ tasks[t].pc = "category"
    /\ LocalOf(tasks[t].slug).parent # "null"
    /\ ~HasSlug(fullCatalog, LocalOf(tasks[t].slug).parent)
    /\ Rejected(t)
    /\ UNCHANGED <<fvars, uvars, cvars, fullCatalog, file, options, remote, mainpc, mainidx,
                   failuresLeft, reports, walked, pruned, deleteCalls>>

\* createPage: loadCategory fails
CategoryFails(t) ==
    /\ Running /\ tasks[t].pc = "category" /\ failuresLeft > 0
    /\ failuresLeft' = failuresLeft - 1
    /\ Rejected(t)
    /\ UNCHANGED <<fvars, uvars, cvars, fullCatalog, file, options, remote, mainpc, mainidx,
                   reports, walked, pruned, deleteCalls>>

\* createPage: pushPage(parent) has returned (it returns as soon as its loadPage
\* is answered: updatePage and createPage are not awaited), and the parent is
\* requested with loadPage
ParentPushReturned(t) ==
    /\ Running /\ tasks[t].pc = "awaitParent"
    /\ tasks[tasks[t].child].pc # "lookup"
    /\ tasks' = [tasks EXCEPT ![t].pc = "loadParent"]
    /\ UNCHANGED <<fvars, uvars, cvars, fullCatalog, file, options, remote, mainpc, mainidx,
                   failuresLeft, exited, reports, walked, pruned, deleteCalls>>

\* Mutant of ParentFound: the answer of loadPage(parent) is not looked at
ParentAssumed(rem, parent) == TRUE

\* `parentPage = await this.loadPage(localPage.parent)` resolves: the parent is
\* on ReadMe (a 404 rejects)
ParentFound(rem, parent) == rem[parent].present

\* createPage: loadPage(parent) answered 200
ParentLoaded(t) ==
    /\ Running /\ tasks[t].pc = "loadParent"
    /\ ParentFound(remote, LocalOf(tasks[t].slug).parent)
    /\ RequestPost(t)
    /\ UNCHANGED <<fvars, uvars, cvars, fullCatalog, file, options, remote, mainpc, mainidx,
                   failuresLeft, exited, walked, pruned, deleteCalls>>

\* createPage: loadPage(parent) answered 404, which createPage does not catch
ParentNotFound(t) ==
    /\ Running /\ tasks[t].pc = "loadParent"
    /\ ~ParentFound(remote, LocalOf(tasks[t].slug).parent)
    /\ Rejected(t)
    /\ UNCHANGED <<fvars, uvars, cvars, fullCatalog, file, options, remote, mainpc, mainidx,
                   failuresLeft, reports, walked, pruned, deleteCalls>>

\* createPage: loadPage(parent) fails otherwise
ParentLoadFails(t) ==
    /\ Running /\ tasks[t].pc = "loadParent" /\ failuresLeft > 0
    /\ failuresLeft' = failuresLeft - 1
    /\ Rejected(t)
    /\ UNCHANGED <<fvars, uvars, cvars, fullCatalog, file, options, remote, mainpc, mainidx,
                   reports, walked, pruned, deleteCalls>>

\* The POST is served: the page exists remotely under its category and parent
PostServed(t) ==
    /\ Running /\ tasks[t].pc = "post"
    /\ remote' = [remote EXCEPT ![tasks[t].slug] =
                     Stored(pageToJson(LocalOf(tasks[t].slug), fullCatalog),
                            LocalOf(tasks[t].slug).category, LocalOf(tasks[t].slug).parent)]
    /\ tasks' = [tasks EXCEPT ![t].pc = "done"]
    /\ Report(tasks[t].slug, "created")
    /\ UNCHANGED <<fvars, uvars, cvars, fullCatalog, file, options, mainpc, mainidx, failuresLeft,
                   exited, walked, pruned, deleteCalls>>

\* The POST fails: `.catch` logs the error and calls process.exit(1)
PostFails(t) ==
    /\ Running /\ tasks[t].pc = "post" /\ failuresLeft > 0
    /\ failuresLeft' = failuresLeft - 1
    /\ exited' = "exit1"
    /\ UNCHANGED <<fvars, uvars, cvars, fullCatalog, file, options, remote, tasks, mainpc, mainidx,
                   reports, walked, pruned, deleteCalls>>

\* The PUT is served: ReadMe stores the body of the request
PutServed(t) ==
    /\ Running /\ tasks[t].pc = "put" /\ remote[tasks[t].slug].present
    /\ remote' = [remote EXCEPT ![tasks[t].slug] =
                     [Stored(tasks[t].payload.json, tasks[t].payload.category,
                             tasks[t].payload.parentDoc)
                         EXCEPT !.id = tasks[t].payload.id]]
    /\ tasks' = [tasks EXCEPT ![t].pc = "done"]
    /\ Report(tasks[t].slug, "updated")
    /\ UNCHANGED <<fvars, uvars, cvars, fullCatalog, file, options, mainpc, mainidx, failuresLeft,
                   exited, walked, pruned, deleteCalls>>

\* The PUT fails in transport: `.catch` logs the error and calls process.exit(1)
PutFails(t) ==
    /\ Running /\ tasks[t].pc = "put" /\ failuresLeft > 0
    /\ failuresLeft' = failuresLeft - 1
    /\ exited' = "exit1"
    /\ UNCHANGED <<fvars, uvars, cvars, fullCatalog, file, options, remote, tasks, mainpc, mainidx,
                   reports, walked, pruned, deleteCalls>>

\* The PUT reaches a page the prune has deleted meanwhile: an error answer,
\* handled by the same `.catch`
PutGone(t) ==
    /\ Running /\ tasks[t].pc = "put" /\ ~remote[tasks[t].slug].present
    /\ exited' = "exit1:gone"
    /\ UNCHANGED <<fvars, uvars, cvars, fullCatalog, file, options, remote, tasks, mainpc, mainidx,
                   failuresLeft, reports, walked, pruned, deleteCalls>>

\* Mutant of fetchPagesOf: the pages of the children come before their parent
RECURSIVE fetchPagesOfPostOrder(_, _, _, _)
fetchPagesOfPostOrder(rem, category, parent, slugs) ==
    IF slugs = <<>> THEN <<>>
    ELSE LET sl == Head(slugs)
             children == SelectSeq(RemoteSlugs,
                             LAMBDA c : rem[c].present /\ rem[c].parent = sl /\ c # sl)
         IN  fetchPagesOfPostOrder(rem, category, sl, children)
             \o <<jsonToPage(rem[sl].json, sl, category, parent)>>
             \o fetchPagesOfPostOrder(rem, category, parent, Tail(slugs))

\* fetchPage and flatten: the page of each listed document, then the pages of
\* its children with the document as their parent, in the order of the listing
RECURSIVE fetchPagesOf(_, _, _, _)
fetchPagesOf(rem, category, parent, slugs) ==
    IF slugs = <<>> THEN <<>>
    ELSE LET sl == Head(slugs)
             children == SelectSeq(RemoteSlugs,
                             LAMBDA c : rem[c].present /\ rem[c].parent = sl /\ c # sl)
         IN  <<jsonToPage(rem[sl].json, sl, category, parent)>>
             \o fetchPagesOf(rem, category, sl, children)
             \o fetchPagesOf(rem, category, parent, Tail(slugs))

\* GET /categories/<category>/docs: the root documents of the category
ListCategory(rem, category) ==
    SelectSeq(RemoteSlugs,
              LAMBDA sl : rem[sl].present /\ rem[sl].category = category
                          /\ rem[sl].parent = "null")

\* Api.fetchPages(categories) without callback
RECURSIVE fetchPages(_, _)
fetchPages(rem, categories) ==
    IF categories = <<>> THEN <<>>
    ELSE fetchPagesOf(rem, Head(categories), "null", ListCategory(rem, Head(categories)))
         \o fetchPages(rem, Tail(categories))

\* Mutant of notIn: pages are told apart by slug
notInBySlug(catalog, pg) == ~\E i \in 1..Len(catalog) : catalog[i].slug = pg.slug

\* Page.notIn(catalog): no page of the catalog has the page's path
notIn(catalog, pg) == ~\E i \in 1..Len(catalog) : path(catalog[i]) = path(pg)

\* push action with --prune: remoteCatalog.select(Page.notIn(catalog)) of the
\* selected remote pages
toPrune(remotePages, catalog) ==
    SelectSeq(selectPages(remotePages), LAMBDA pg : notIn(catalog, pg))

\* push action with --prune: the remote pages are fetched, and deletePage is
\* called (not awaited) for each page to prune; a dry run only reports
PruneFetched ==
    /\ Running /\ mainpc = "pruneFetch"
    /\ LET remotePages == fetchPages(remote, Categories)
           slugs == {pg.slug : pg \in Range(toPrune(remotePages, Selected))}
       IN  /\ walked' = remotePages
           /\ pruned' = slugs
           /\ deleteCalls' = [sl \in Range(RemoteSlugs) |->
                                  IF ~options.dryRun /\ sl \in slugs THEN "requested"
                                  ELSE "none"]
           /\ reports' = IF options.dryRun
                         THEN reports \cup {<<sl, "would delete">> : sl \in slugs}
                         ELSE reports
    /\ mainpc' = "end"
    /\ UNCHANGED <<fvars, uvars, cvars, fullCatalog, file, options, remote, tasks, mainidx,
                   failuresLeft, exited>>

\* deletePage: the DELETE is served
DeleteServed(sl) ==
    /\ Running /\ deleteCalls[sl] = "requested"
    /\ remote' = [remote EXCEPT ![sl] = Absent]
    /\ deleteCalls' = [deleteCalls EXCEPT ![sl] = "served"]
    /\ Report(sl, "deleted")
    /\ UNCHANGED <<fvars, uvars, cvars, fullCatalog, file, options, tasks, mainpc, mainidx,
                   failuresLeft, exited, walked, pruned>>

\* deletePage: the DELETE fails and deletePage rejects, which nobody awaits
DeleteFails(sl) ==
    /\ Running /\ deleteCalls[sl] = "requested" /\ failuresLeft > 0
    /\ failuresLeft' = failuresLeft - 1
    /\ deleteCalls' = [deleteCalls EXCEPT ![sl] = "failed"]
    /\ exited' \in {"no", "unhandled"}
    /\ UNCHANGED <<fvars, uvars, cvars, fullCatalog, file, options, remote, tasks, mainpc, mainidx,
                   reports, walked, pruned>>

NextPush ==
    \/ MainPush
    \/ MainConfigError
    \/ MainNothingToPush
    \/ MainLoopDone
    \/ PruneFetched
    \/ \E sl \in Range(RemoteSlugs) : DeleteServed(sl)
    \/ \E sl \in Range(RemoteSlugs) : DeleteFails(sl)
    \/ \E t \in DOMAIN tasks : LookupUnchanged(t)
    \/ \E t \in DOMAIN tasks : LookupUpdate(t)
    \/ \E t \in DOMAIN tasks : LookupNotFound(t)
    \/ \E t \in DOMAIN tasks : LookupFails(t)
    \/ \E t \in DOMAIN tasks : CategoryLoadedNoParent(t)
    \/ \E t \in DOMAIN tasks : CategoryLoadedEnsureParent(t)
    \/ \E t \in DOMAIN tasks : CategoryLoadedNoLocalParent(t)
    \/ \E t \in DOMAIN tasks : CategoryFails(t)
    \/ \E t \in DOMAIN tasks : ParentPushReturned(t)
    \/ \E t \in DOMAIN tasks : ParentLoaded(t)
    \/ \E t \in DOMAIN tasks : ParentNotFound(t)
    \/ \E t \in DOMAIN tasks : ParentLoadFails(t)
    \/ \E t \in DOMAIN tasks : PostServed(t)
    \/ \E t \in DOMAIN tasks : PostFails(t)
    \/ \E t \in DOMAIN tasks : PutServed(t)
    \/ \E t \in DOMAIN tasks : PutFails(t)
    \/ \E t \in DOMAIN tasks : PutGone(t)

SpecPush == InitPush /\ [][NextPush]_vars

\* Nothing is in flight any more
Quiescent ==
    \/ exited # "no"
    \/ /\ mainpc = "end" /\ \A sl \in DOMAIN deleteCalls : deleteCalls[sl] # "requested"
       /\ \A t \in DOMAIN tasks : Settled(t)

-----------------------------------------------------------------------------
(* The fetch command: src/unnamed/part_000 (fetch action) *)

\* The local catalogs a fetch may start from: docs/cat/a.md, docs/cat/a/b.md,
\* docs/misc/c.md and a second file named b, docs/cat/b.md
FetchCatalogs ==
    { <<>>,
      <<AllPages[1]>>,
      <<AllPages[1], AllPages[2]>>,
      AllPages,
      <<AllPages[1], AllPages[2], LocalPage("cat", "null", "b", "v1")>> }

\* The files the docs directory may hold
DiskPaths ==
    {path(AllPages[i]) : i \in 1..Len(AllPages)}
    \cup {<<"cat", SL, "b", ".md">>, <<"cat", SL, "r", ".md">>}

\* The docs directory Catalog.build(dir) has read the pages from
DiskOf(pages) ==
    [p \in DiskPaths |->
        IF \E i \in 1..Len(pages) : path(pages[i]) = p
        THEN Serialized(pages[CHOOSE i \in 1..Len(pages) : path(pages[i]) = p])
        ELSE <<>>]

InitFetch ==
    /\ Configured
    /\ fullCatalog \in FetchCatalogs
    /\ file = <<>>
    /\ options = [force |-> FALSE, dryRun |-> FALSE, prune |-> FALSE]
    /\ remote \in {rem \in InitialRemotes : Consistent(rem)}
    /\ tasks = <<>> /\ mainpc = "idle" /\ mainidx = 1
    /\ failuresLeft \in {0, MaxFailures}
    /\ exited = "no" /\ reports = {}
    /\ walked = <<>> /\ pruned = {}
    /\ deleteCalls = [sl \in Range(RemoteSlugs) |-> "none"]
    /\ disk = DiskOf(fullCatalog)
    /\ catalogPages = selectPages(fullCatalog)
    /\ written = <<>> /\ failed = {} /\ stale = <<>> /\ answer = "none"
    /\ fetchpc = "list"
    /\ NoCall

\* fetchPages: the categories are listed; the documents found are those the walk
\* will return
FetchListed ==
    /\ Running /\ fetchpc = "list"
    /\ walked' = fetchPages(remote, Categories)
    /\ fetchpc' = "walk"
    /\ UNCHANGED <<fvars, uvars, fullCatalog, file, options, remote, tasks, mainpc, mainidx,
                   failuresLeft, exited, reports, pruned, deleteCalls,
                   disk, catalogPages, written, failed, stale, answer>>

\* fetchPage starts for a document once it is listed, for a child once its
\* parent's callback has returned
Loading(i) ==
    /\ i \notin Range(written) /\ i \notin failed
    /\ \/ walked[i].parent = "null"
       \/ \E j \in Range(written) : walked[j].slug = walked[i].parent

\* fetchPage: a document is loaded and the callback writes it with page.writeTo(dir)
\* (the configuration names no filter); the other documents go on loading after
\* one has failed
FetchPageWritten(i) ==
    /\ Running /\ fetchpc \in {"walk", "failed"} /\ Loading(i)
    /\ KnownFilters(pipeline)
    /\ disk' = [disk EXCEPT ![path(walked[i])] = Serialized(walked[i])]
    /\ written' = Append(written, i)
    /\ UNCHANGED <<fvars, uvars, pvars, catalogPages, failed, stale, answer, fetchpc>>

\* fetch callback: createFilters(options.config), called for the loaded page,
\* finds an unknown filter name and calls process.exit(1)
FetchConfigError(i) ==
    /\ Running /\ fetchpc \in {"walk", "failed"} /\ Loading(i)
    /\ ~KnownFilters(pipeline)
    /\ exited' = "config"
    /\ UNCHANGED <<fvars, uvars, cvars, fullCatalog, file, options, remote, tasks, mainpc,
                   mainidx, failuresLeft, reports, walked, pruned, deleteCalls>>

\* The listing of a category fails: fetchPages rejects and so does the action
FetchFails ==
    /\ Running /\ fetchpc = "list" /\ failuresLeft > 0
    /\ failuresLeft' = failuresLeft - 1
    /\ fetchpc' = "failed"
    /\ exited' \in {"no", "unhandled"}
    /\ UNCHANGED <<fvars, uvars, fullCatalog, file, options, remote, tasks, mainpc, mainidx,
                   reports, walked, pruned, deleteCalls,
                   disk, catalogPages, written, failed, stale, answer>>

\* fetchPage: loadPage of one document fails; Promise.all rejects at once, so
\* fetchPages and the action reject, and the runtime goes on or ends the process
LoadPageFails(i) ==
    /\ Running /\ fetchpc \in {"walk", "failed"} /\ Loading(i) /\ failuresLeft > 0
    /\ failuresLeft' = failuresLeft - 1
    /\ failed' = failed \cup {i}
    /\ fetchpc' = "failed"
    /\ exited' \in {"no", "unhandled"}
    /\ UNCHANGED <<fvars, uvars, fullCatalog, file, options, remote, tasks, mainpc, mainidx,
                   reports, walked, pruned, deleteCalls,
                   disk, catalogPages, written, stale, answer>>

\* Mutant of staleLocalPages: pages are told apart by slug
staleLocalPagesBySlug(pages, fetched) ==
    SelectSeq(pages, LAMBDA pg : ~\E i \in 1..Len(fetched) : fetched[i].slug = pg.slug)

\* catalog.pages.filter(page => !fetchedPagePaths.includes(page.path))
staleLocalPages(pages, fetched) ==
    SelectSeq(pages, LAMBDA pg : ~\E i \in 1..Len(fetched) : path(fetched[i]) = path(pg))

\* Catalog.deletePages, on this.pages: every page with the slug of a removed page goes
deletePages(pages, toRemove) ==
    SelectSeq(pages, LAMBDA pg : \A i \in 1..Len(toRemove) : pg.slug # toRemove[i].slug)

\* Catalog.deletePages, on the directory: Page.delete(dir) unlinks the file at the
\* path of each removed page
unlinkPages(files, toRemove) ==
    [p \in DOMAIN files |->
        IF \E i \in 1..Len(toRemove) : path(toRemove[i]) = p THEN <<>> ELSE files[p]]

AllFetched == fetchpc = "walk" /\ Range(written) = 1..Len(walked)

\* fetch action after the walk: no local page is stale
NoStalePages ==
    /\ Running /\ AllFetched
    /\ staleLocalPages(catalogPages, walked) = <<>>
    /\ fetchpc' = "end"
    /\ UNCHANGED <<fvars, uvars, pvars, disk, catalogPages, written, failed, stale, answer>>

\* fetch action after the walk: stale pages are listed and the user answers yes
PruneConfirmed ==
    /\ Running /\ AllFetched
    /\ staleLocalPages(catalogPages, walked) # <<>>
    /\ stale' = staleLocalPages(catalogPages, walked)
    /\ answer' = "yes"
    /\ catalogPages' = deletePages(catalogPages, stale')
    /\ disk' = unlinkPages(disk, stale')
    /\ fetchpc' = "end"
    /\ UNCHANGED <<fvars, uvars, pvars, written, failed>>

\* fetch action after the walk: stale pages are listed and the user answers no
PruneDeclined ==
    /\ Running /\ AllFetched
    /\ staleLocalPages(catalogPages, walked) # <<>>
    /\ stale' = staleLocalPages(catalogPages, walked)
    /\ answer' = "no"
    /\ fetchpc' = "end"
    /\ UNCHANGED <<fvars, uvars, pvars, disk, catalogPages, written, failed>>

NextFetch ==
    \/ FetchListed
    \/ \E i \in 1..Len(walked) : FetchPageWritten(i)
    \/ \E i \in 1..Len(walked) : FetchConfigError(i)
    \/ FetchFails
    \/ \E i \in 1..Len(walked) : LoadPageFails(i)
    \/ NoStalePages
    \/ PruneConfirmed
    \/ PruneDeclined

SpecFetch == InitFetch /\ [][NextFetch]_vars

-----------------------------------------------------------------------------
(* Single operations on pages and elements, called on drawn arguments *)

\* Pages that differ in the fields the hash reads and in fields it does not read
HashedPages ==
    { Page(where[1], where[2], where[3], body,
           [title |-> t, excerpt |-> e, hidden |-> hid, next |-> <<>>]) :
        where \in {<<"cat", "null", "a">>, <<"misc", "a", "b">>},
        t \in {"T", "U"}, e \in {"E", "F"},
        hid \in {"undefined", "false", "true", "str:true"},
        body \in {<<>>, <<"x">>, <<"x", NL>>, <<"x", NL, NL>>} }

\* Hrefs a replacement link may carry
NewHrefs == {<<"z.png">>, Cdn \o <<"img", SL, "z.png">>}

\* A page, two of its url links in the order of the batch, and the hrefs of
\* their replacements
ReplaceArgs ==
    { a \in LocalDocs \X (1..(2 * MaxBlocks)) \X (1..(2 * MaxBlocks)) \X NewHrefs \X NewHrefs :
        /\ a[2] # a[3]
        /\ a[2] <= Len(a[1].elements) /\ a[3] <= Len(a[1].elements)
        /\ isUrlLink(a[1].elements[a[2]]) /\ isUrlLink(a[1].elements[a[3]]) }

\* Hrefs of the links to classify
ClassifiedHrefs ==
    { <<"a.png">>, <<"https:", SL, SL, "x.org", SL, "a">>,
      <<"doc:", "foo">>, <<"doc:", "foo", "#", "sec">>, <<"doc:", "foo", SL, "bar">>,
      <<"doc:">>, <<"doc:", SL, "foo">>, <<"#", "sec">>, <<"#">>,
      <<"mailto:", "a", "@", "b.com">>, <<"doc:", "foo", "@", "b.com">>,
      <<"#", "a", "@", "b.com">> }

\* A link to classify: image marker or not, href, title or not
FindAllArgs == BOOLEAN \X ClassifiedHrefs \X BOOLEAN

\* Pages that declare related pages, some of them in no catalog, and the
\* catalogs the slugs are resolved in; the second has two pages with slug b
MaxRelated == 2
RelatedSlugs == {"a", "b", "zz"}
RelatedPages ==
    { Page("cat", "null", "p", <<"x", NL>>,
           [title |-> "P", excerpt |-> "E", hidden |-> "undefined", next |-> nx]) :
        nx \in UNION { [1..n -> RelatedSlugs] : n \in 0..MaxRelated } }
TitledPage(category, parent, slug, title) ==
    Page(category, parent, slug, <<>>,
         [title |-> title, excerpt |-> "E", hidden |-> "undefined", next |-> <<>>])
RelatedCatalogs ==
    { <<>>,
      <<TitledPage("cat", "null", "a", "A")>>,
      <<TitledPage("cat", "null", "a", "A"), TitledPage("cat", "a", "b", "B1"),
        TitledPage("cat", "null", "b", "B2")>> }

\* The predicates a catalog is narrowed and searched with: Page.bySlug(slug),
\* Page.byPath(filepath), Page.inCategories(categories)
Satisfies(filter, pg) ==
    CASE filter[1] = "bySlug" -> pg.slug = filter[2]
      [] filter[1] = "byPath" -> path(pg) = filter[2]
      [] filter[1] = "inCategories" -> pg.category \in filter[2]

\* Mutant of select: only the first predicate narrows the catalog
selectByFirst(pages, filters) ==
    IF filters = <<>> THEN pages
    ELSE SelectSeq(pages, LAMBDA pg : Satisfies(Head(filters), pg))

\* Catalog.select(...filters): `pages = pages.filter(filter)` for each
\* predicate in turn, from this.pages; the pages of the new Catalog
RECURSIVE select(_, _)
select(pages, filters) ==
    IF filters = <<>> THEN pages
    ELSE select(SelectSeq(pages, LAMBDA pg : Satisfies(Head(filters), pg)), Tail(filters))

\* Catalog.find(filter): this.pages.find(filter), undefined when nothing matches
find(pages, filter) ==
    IF \E i \in 1..Len(pages) : Satisfies(filter, pages[i])
    THEN pages[CHOOSE i \in 1..Len(pages) :
                   /\ Satisfies(filter, pages[i])
                   /\ \A j \in 1..(i - 1) : ~Satisfies(filter, pages[j])]
    ELSE "undefined"

\* The predicates and the lists of predicates the operations are called with
MaxFilters == 2
PagePredicates ==
    { <<"bySlug", "b">>, <<"bySlug", "zz">>, <<"byPath", path(AllPages[2])>>,
      <<"inCategories", {"cat"}>>, <<"inCategories", {"cat", "misc"}>> }
PredicateLists == UNION { [1..n -> PagePredicates] : n \in 0..MaxFilters }

\* Pages the hostedFiles filter is called on: local pages, pages whose local
\* links were rehomed under a base URL, and pages that declare related pages
HostedDocs ==
    LocalDocs \cup {HostedFilesApply(d, b) : d \in LocalDocs, b \in BaseUrls}
    \cup RelatedPages

\* The arguments each operation is called on
Args(op) ==
    CASE op = "hash" -> HashedPages \X HashedPages
      [] op = "replaceElements" -> ReplaceArgs
      [] op = "findAll" -> FindAllArgs
      [] op = "sources" -> HashedPages
      [] op = "pageToJson" -> RelatedPages \X RelatedCatalogs
      [] op = "hostedFiles" -> HostedDocs \X BaseUrls
      [] op = "select" -> FetchCatalogs \X PredicateLists \X PagePredicates

Operations == {"hash", "replaceElements", "findAll", "sources", "pageToJson",
               "hostedFiles", "select"}

InitCall ==
    /\ FilterIdle /\ PushIdle /\ FetchIdle
    /\ called \in Operations
    /\ arg \in Args(called)
    /\ result = <<>>

\* page.hash of two pages
CallHash ==
    /\ called = "hash" /\ result = <<>>
    /\ result' = <<hash(arg[1]), hash(arg[2])>>
    /\ UNCHANGED <<fvars, pvars, cvars, called, arg>>

\* page.replaceElements([[el1, new1], [el2, new2]]): the rewritten sources
\* (updatedSources) and the page created from them
CallReplaceElements ==
    /\ called = "replaceElements" /\ result = <<>>
    /\ LET pg   == arg[1]
           reps == <<<<pg.elements[arg[2]], copy(pg.elements[arg[2]], arg[4])>>,
                     <<pg.elements[arg[3]], copy(pg.elements[arg[3]], arg[5])>>>>
       IN  result' = [updatedSources |->
                         ReduceReplace(SortDescending(reps), sources(pg.headers, pg.content)),
                      page |-> replaceElements(pg, reps)]
    /\ UNCHANGED <<fvars, pvars, cvars, called, arg>>

\* Link.findAll(page) on a page whose body is one link, each link as its class
\* constructs it
CallFindAll ==
    /\ called = "findAll" /\ result = <<>>
    /\ LET body == (IF arg[1] THEN <<"!">> ELSE <<>>) \o <<"[", "x", "]", "(">> \o arg[2]
                   \o (IF arg[3] THEN <<SP, DQ, "t", DQ>> ELSE <<>>) \o <<")", NL>>
           els  == FindLinks(sources([title |-> "T", excerpt |-> "E",
                                      hidden |-> "undefined", next |-> <<>>], body))
       IN  result' = [i \in 1..Len(els) |->
                         IF els[i].type = "XrefLink"
                         THEN [type |-> els[i].type, href |-> els[i].href,
                               slug |-> XrefParse(els[i].href).slug,
                               anchor |-> XrefParse(els[i].href).anchor]
                         ELSE [type |-> els[i].type, href |-> els[i].href]]
    /\ UNCHANGED <<fvars, pvars, cvars, called, arg>>

\* page.sources, the text page.writeTo(dir) writes to the file of the page
CallSources ==
    /\ called = "sources" /\ result = <<>>
    /\ result' = sources(arg.headers, arg.content)
    /\ UNCHANGED <<fvars, pvars, cvars, called, arg>>

\* api.pageToJson(page) of an Api built on a catalog
CallPageToJson ==
    /\ called = "pageToJson" /\ result = <<>>
    /\ result' = pageToJson(arg[1], arg[2])
    /\ UNCHANGED <<fvars, pvars, cvars, called, arg>>

\* HostedFilesFilter.apply(page) and HostedFilesFilter.rollback(page) of a
\* filter configured with a base URL, each called on the page
CallHostedFiles ==
    /\ called = "hostedFiles" /\ result = <<>>
    /\ result' = [apply |-> HostedFilesApply(arg[1], arg[2]),
                  rollback |-> HostedFilesRollback(arg[1], arg[2])]
    /\ UNCHANGED <<fvars, pvars, cvars, called, arg>>

\* catalog.select(...filters) and catalog.find(filter) on a catalog: the pages
\* of the returned catalog, the pages of the catalog itself after the call
\* (select and Array.filter assign nothing to this.pages), the page found
CallSelect ==
    /\ called = "select" /\ result = <<>>
    /\ result' = [selected |-> select(arg[1], arg[2]),
                  pages |-> arg[1],
                  found |-> find(arg[1], arg[3])]
    /\ UNCHANGED <<fvars, pvars, cvars, called, arg>>

NextCall ==
    \/ CallSelect
    \/ CallHostedFiles
    \/ CallPageToJson
    \/ CallSources
    \/ CallHash
    \/ CallReplaceElements
    \/ CallFindAll

SpecCall == InitCall /\ [][NextCall]_vars

-----------------------------------------------------------------------------
(* Claims about the filters *)

\* The body holds the opening sentinel line of the footer marker
HasOpening(content) ==
    \E i \in 1..(Len(content) - 1) : content[i] = NL /\ content[i + 1] = OPEN

\* C1: link rehoming is symmetric: HostedFilesFilter.rollback(HostedFilesFilter.apply(D))
\* has the serialized form of D, for every document D.
C1_LinkRehomingSymmetric ==
    (fpc = "done" /\ pipeline = <<"hostedFiles">> /\ ~viaRemote)
        => Serialized(page) = Serialized(orig)

\* C2 as stated: FooterFilter.rollback(FooterFilter.apply(D)) has exactly the body
\* of D, for every document D.
C2_FooterSymmetricAnyBody ==
    (fpc = "done" /\ pipeline = <<"footer">> /\ ~viaRemote)
        => page.content = orig.content

\* C2 amended: FooterFilter.apply yields the body followed by the sentinel-wrapped
\* rendered template, and for every document whose body does not hold the opening
\* sentinel line, FooterFilter.rollback on that result yields exactly the body.
C2_FooterSymmetric ==
    /\ (pipeline = <<"footer">> /\ fpc = "apply" /\ fidx = 2)
           => page.content = orig.content \o wrap(rendered)
    /\ (pipeline = <<"footer">> /\ fpc = "done" /\ ~HasOpening(orig.content))
           => page.content = orig.content

C2_Witness ==
    /\ pipeline = <<"footer">> /\ fpc = "done" /\ ~viaRemote
    /\ orig.content # <<>> /\ ~HasOpening(orig.content)
    /\ page.content = orig.content

\* C3: for both orders of the two filters, applying them in configuration order,
\* storing the result remotely and rolling back in the same order gives a document
\* whose content is that of the local document.
C3_PipelineRoundTrip ==
    (fpc = "done" /\ Len(pipeline) = 2 /\ viaRemote)
        => page.content = orig.content

-----------------------------------------------------------------------------
(* Claims about the push command *)

\* pushPage: `const remotePage = Api.jsonToPage(pageJson)` for the payload task t loaded
LoadedPage(t) == jsonToPage(tasks[t].pageJson, tasks[t].slug, "", "null")

\* localPage.parent of the page task t pushes
ParentOf(t) == LocalOf(tasks[t].slug).parent

\* C4: when pushPage(L) finds a remote document with L's slug, force is not
\* requested and the hash of the remote payload equals L's hash, no update call
\* and no create call is issued for L and L is reported as unchanged.
C4_NoOpDetection ==
    \A t \in DOMAIN tasks :
        ( /\ tasks[t].lookup \in {"same", "differs"}
          /\ ~options.force
          /\ hash(LoadedPage(t)) = hash(LocalOf(tasks[t].slug)) )
        => /\ tasks[t].issued = "none"
           /\ tasks[t].pc = "done"
           /\ <<tasks[t].slug, "unchanged">> \in reports

C4_Witness ==
    \E t \in DOMAIN tasks :
        /\ tasks[t].lookup = "same" /\ ~options.force /\ ~options.dryRun
        /\ hash(LoadedPage(t)) = hash(LocalOf(tasks[t].slug))
        /\ tasks[t].issued = "none"
        /\ <<tasks[t].slug, "unchanged">> \in reports

\* C5: in every step of a push, the create call for a document B that declares
\* parent A is issued only while A exists remotely.
C5_ParentBeforeChild ==
    [][ \A t \in DOMAIN tasks :
            ( /\ tasks[t].issued # "POST"
              /\ tasks'[t].issued = "POST"
              /\ ParentOf(t) # "null" )
            => remote[ParentOf(t)].present ]_vars

C5_Witness ==
    \E t \in DOMAIN tasks :
        /\ tasks[t].issued = "POST"
        /\ ParentOf(t) # "null"
        /\ remote[ParentOf(t)].present
        /\ <<ParentOf(t), "created">> \in reports

\* C6: when the lookup of a pushed document L answers not-found, no remote call
\* fails otherwise and L's parent, if any, is in the local catalog, the push of L
\* does not end without a create call issued for L.
C6_CreateEventuallyIssued ==
    \A t \in DOMAIN tasks :
        ( /\ tasks[t].main
          /\ tasks[t].lookup = "notfound"
          /\ Settled(t)
          /\ ~options.dryRun
          /\ failuresLeft = MaxFailures
          /\ (ParentOf(t) = "null" \/ HasSlug(fullCatalog, ParentOf(t))) )
        => tasks[t].issued = "POST"

\* C7: no transport failure during the lookup, create or update of one document
\* terminates the whole run.
C7_PageIsolatedFailure == exited # "exit1"

\* The selection filter of the run, on one page
PassesSelection(pg) ==
    IF file # <<>> THEN path(pg) = file ELSE pg.category \in Range(Categories)

C10_PruneAfterPush ==
    (options.prune /\ mainpc \in {"pruneFetch", "end"} /\ Len(Selected) > 0)
    => \A t \in DOMAIN tasks : Settled(t)

-----------------------------------------------------------------------------
(* Claims about the fetch command *)

\* C8: after a fetch, the pages reported as stale are exactly the selected local
\* pages whose path the remote walk did not produce; a local file is deleted only
\* if its page is such a stale candidate and the user confirmed; and a local file
\* whose path the walk produced is never deleted.
C8_StaleNeverAutoDeleted ==
    /\ fetchpc = "end"
           => Range(stale) = {pg \in Range(Selected) :
                                 \A i \in 1..Len(walked) : path(walked[i]) # path(pg)}
    /\ \A k \in 1..Len(fullCatalog) :
           disk[path(fullCatalog[k])] = <<>>
               => /\ answer = "yes"
                  /\ fullCatalog[k] \in Range(stale)
                  /\ \A i \in 1..Len(walked) : path(walked[i]) # path(fullCatalog[k])
    /\ \A i \in Range(written) : disk[path(walked[i])] # <<>>

C8_Witness ==
    /\ fetchpc = "end" /\ answer = "yes"
    /\ \E k \in 1..Len(fullCatalog) : disk[path(fullCatalog[k])] = <<>>
    /\ \E k \in 1..Len(fullCatalog) :
           /\ disk[path(fullCatalog[k])] # <<>>
           /\ \E i \in Range(written) : path(walked[i]) = path(fullCatalog[k])

-----------------------------------------------------------------------------
(* Claims about dry runs *)

\* C11: with the dry-run option set, no create POST, no update PUT and no DELETE
\* is ever issued during push or prune, and the remote store stays as it was.
C11_DryRunNoSideEffect ==
    (options.dryRun /\ mainpc # "idle")
    => /\ \A t \in DOMAIN tasks : tasks[t].issued = "none"
       /\ \A sl \in DOMAIN deleteCalls : deleteCalls[sl] = "none"
       /\ \A sl \in DOMAIN remote : <<sl, "created">> \notin reports
                                    /\ <<sl, "updated">> \notin reports
                                    /\ <<sl, "deleted">> \notin reports

C11_Witness ==
    /\ options.dryRun /\ options.prune /\ mainpc = "end"
    /\ \E sl \in DOMAIN remote : <<sl, "would delete">> \in reports
    /\ \E sl \in DOMAIN remote : <<sl, "would update">> \in reports
    /\ \E sl \in DOMAIN remote : <<sl, "would create">> \in reports
    /\ \A t \in DOMAIN tasks : tasks[t].issued = "none"

\* The decision a push takes for a local page, given what ReadMe holds
Decision(slug) ==
    IF ~remote[slug].present THEN "create"
    ELSE IF PushDecision(options.force,
                         hash(jsonToPage(remote[slug].json, slug, "", "null")),
                         hash(LocalOf(slug))) = "unchanged"
         THEN "skip"
         ELSE "update"

\* What a dry run prints for a decision
DryRunReport(decision) ==
    CASE decision = "create" -> "would create"
      [] decision = "update" -> "would update"
      [] OTHER -> "unchanged"

\* C12: in a dry run without transport failure, once the push of a selected
\* document has ended, the decision reported for it is the one a real push takes
\* from the same remote state: would-create (also when its parent, present in the
\* local catalog, is not on ReadMe yet), would-update or unchanged.
C12_DryRunSameDecisions ==
    \A t \in DOMAIN tasks :
        ( /\ options.dryRun
          /\ tasks[t].main
          /\ Settled(t)
          /\ failuresLeft = MaxFailures
          /\ (ParentOf(t) = "null" \/ HasSlug(fullCatalog, ParentOf(t))) )
        => <<tasks[t].slug, DryRunReport(Decision(tasks[t].slug))>> \in reports

-----------------------------------------------------------------------------
(* Claims about single operations *)

\* The four normalized fields the identity hash is said to depend on
HashFields(pg) ==
    <<pg.headers.title, pg.headers.excerpt, pg.headers.hidden \in {"true", "str:true"},
      IF pg.content # <<>> /\ pg.content[Len(pg.content)] = NL
      THEN SubSeq(pg.content, 1, Len(pg.content) - 1) ELSE pg.content>>

\* C13: two pages with equal title, excerpt, hidden flag and body without one
\* trailing newline have equal hashes, whatever their other attributes, and two
\* pages that differ in exactly one of the four fields have different hashes.
C13_HashOfFourFields ==
    (called = "hash" /\ result # <<>>)
    => /\ HashFields(arg[1]) = HashFields(arg[2]) => result[1] = result[2]
       /\ Cardinality({k \in 1..4 : HashFields(arg[1])[k] # HashFields(arg[2])[k]}) = 1
              => result[1] # result[2]

C13_Witness ==
    /\ called = "hash" /\ result # <<>>
    /\ arg[1].slug # arg[2].slug
    /\ arg[1].content # arg[2].content
    /\ arg[1].headers.hidden # arg[2].headers.hidden
    /\ HashFields(arg[1]) = HashFields(arg[2])
    /\ result[1] = result[2]

\* The text a span [from, to) of src is replaced with, twice: lo lies before hi
Spliced(src, lo, loText, hi, hiText) ==
    SubSeq(src, 1, lo.position) \o loText
    \o SubSeq(src, lo.position + Len(lo.text) + 1, hi.position) \o hiText
    \o SubSeq(src, hi.position + Len(hi.text) + 1, Len(src))

\* C14: for two elements of a page with non-overlapping spans, replaceElements
\* rewrites the serialized form into the one obtained by splicing both spans with
\* their replacement text, in whichever order the two pairs are given.
C14_PositionSafeReplacement ==
    (called = "replaceElements" /\ result # <<>>)
    => LET src == Serialized(arg[1])
           e1  == arg[1].elements[arg[2]]
           e2  == arg[1].elements[arg[3]]
           t1  == markdown(copy(e1, arg[4]))
           t2  == markdown(copy(e2, arg[5]))
       IN  result.updatedSources =
               IF e1.position < e2.position THEN Spliced(src, e1, t1, e2, t2)
               ELSE Spliced(src, e2, t2, e1, t1)

C14_Witness ==
    /\ called = "replaceElements" /\ result # <<>>
    /\ arg[2] < arg[3]
    /\ Len(arg[4]) > 1
    /\ arg[1].elements[arg[2]].position < arg[1].elements[arg[3]].position
    /\ result.updatedSources # Serialized(arg[1])

\* The href is doc:<slug> with an optional #<anchor>, or #<anchor>
IsXrefHref(href) ==
    \/ Len(href) >= 2 /\ href[1] = "doc:" /\ href[2] \notin {SL, "#", "@"}
    \/ Len(href) >= 1 /\ href[1] = "#"

\* C15: every matched link is classified in the fixed priority order: a leading
\* image marker gives Image; else an href that holds "@" gives MailtoLink; else
\* an href doc:<slug>[#<anchor>] or #<anchor> gives XrefLink with slug and anchor
\* captured; else UrlLink. A plain doc:foo href gives XrefLink.
C15_LinkClassification ==
    (called = "findAll" /\ result # <<>>)
    => /\ Len(result) = 1
       /\ result[1].href = arg[2]
       /\ result[1].type =
              IF arg[1] THEN "Image"
              ELSE IF "@" \in Range(arg[2]) THEN "MailtoLink"
              ELSE IF IsXrefHref(arg[2]) THEN "XrefLink"
              ELSE "UrlLink"
       /\ result[1].type = "XrefLink"
              => /\ arg[2][1] = "doc:" => result[1].slug = arg[2][2]
                 /\ (arg[2][1] = "doc:" /\ Len(arg[2]) >= 4 /\ arg[2][3] = "#")
                        => result[1].anchor = SubSeq(arg[2], 4, Len(arg[2]))
                 /\ arg[2][1] = "#" => result[1].anchor = Tail(arg[2])
       /\ (~arg[1] /\ arg[2] = <<"doc:", "foo">>) => result[1].type = "XrefLink"

C15_Witness ==
    /\ called = "findAll" /\ result # <<>>
    /\ ~arg[1] /\ arg[2] = <<"doc:", "foo", "#", "sec">>
    /\ result[1].type = "XrefLink" /\ result[1].slug = "foo" /\ result[1].anchor = <<"sec">>

\* ---------------------------------------------------------------------------
\* Claims about the fetch walk and the configuration
\* ---------------------------------------------------------------------------

\* C16 (as stated): an unknown filter name in the configuration ends the
\* command before any remote call is issued and before any local file is
\* written: when the process has ended on the configuration error, neither
\* the category listing nor a page lookup has been answered, no push task
\* exists and no file was written or removed.  The fetch command violates it:
\* createFilters runs in the callback of a loaded page
C16_ConfigErrorBeforeAnyWork ==
    exited = "config" =>
        /\ fetchpc \in {"idle", "list"}
        /\ tasks = <<>>
        /\ written = <<>> /\ pruned = {}


\* A present document that belongs to the forest of one of the fetched
\* categories: a root of the category, or a child of such a document
RECURSIVE InForest(_, _)
InForest(rem, sl) ==
    /\ rem[sl].present
    /\ IF rem[sl].parent = "null" THEN rem[sl].category \in Range(Categories)
       ELSE rem[sl].parent # sl /\ InForest(rem, rem[sl].parent)

\* C17: the flat collection fetchPages returns holds every document of the
\* remote category forests exactly once and each parent before its
\* descendants, whatever the order in which the loads and callbacks of the
\* documents have completed
C17_FetchPreOrder ==
    (AllFetched \/ fetchpc = "end") =>
        /\ \A sl \in Range(RemoteSlugs) :
              Cardinality({i \in 1..Len(walked) : walked[i].slug = sl})
                  = (IF InForest(remote, sl) THEN 1 ELSE 0)
        /\ \A i, j \in 1..Len(walked) :
              walked[j].parent = walked[i].slug => i < j

\* All documents of a forest with a child are fetched, and the callbacks
\* returned in another order than the order of the collection
C17_Witness ==
    /\ AllFetched /\ Len(walked) = 3
    /\ \E j \in 1..Len(walked) : walked[j].parent # "null"
    /\ written # <<1, 2, 3>>


\* C18 (as stated): a failure to load one remote document is kept apart from
\* the rest of the fetch: the command is not ended by it and the fetch is not
\* rejected as a whole, so that it can still deliver the documents it has
\* fetched together with the failure.  The code violates it: Promise.all
\* rejects with the first failure and the fetch action has no handler
C18_FetchFailureIsolated ==
    failed # {} => (exited = "no" /\ fetchpc # "failed")


\* ---------------------------------------------------------------------------
\* Claims about the serialized form
\* ---------------------------------------------------------------------------

\* One entry of the metadata block: a key and its quoted value on one line
MetadataEntry(key, value) == <<key, SP, DQ, value, DQ, NL>>

\* The metadata block of a page: title, excerpt, then hidden only if the
\* hidden flag is true, between two delimiter lines
MetadataBlock(pg) ==
    <<FM, NL>> \o MetadataEntry("title:", pg.headers.title)
    \o MetadataEntry("excerpt:", pg.headers.excerpt)
    \o (IF pg.headers.hidden \in {"true", "str:true"}
        THEN MetadataEntry("hidden:", "true") ELSE <<>>)
    \o <<FM, NL>>

ApplyOf(name, pg) ==
    IF name = "hostedFiles" THEN HostedFilesApply(pg, baseUrl) ELSE FooterApply(pg, rendered)
RollbackOf(name, pg) ==
    IF name = "hostedFiles" THEN HostedFilesRollback(pg, baseUrl) ELSE FooterRollback(pg)

\* The filters of the names applied, and rolled back, one after the other
\* from the first name to the last
RECURSIVE ApplyForward(_, _)
ApplyForward(names, pg) ==
    IF names = <<>> THEN pg ELSE ApplyForward(Tail(names), ApplyOf(Head(names), pg))
RECURSIVE RollbackForward(_, _)
RollbackForward(names, pg) ==
    IF names = <<>> THEN pg ELSE RollbackForward(Tail(names), RollbackOf(Head(names), pg))

\* The page the rollbacks start from: the page all configured filters were
\* applied to, sent to ReadMe and received back or handed over as it is
Received ==
    LET applied == ApplyForward(pipeline, orig)
        json    == pageToJson(applied, <<orig>>)
        stored  == [json EXCEPT !.body = StripLastNewline(json.body)]
    IN  IF viaRemote
        THEN jsonToPage(stored, applied.slug, applied.category, applied.parent)
        ELSE applied

C21_UpdateDecision ==
    [][\A t \in DOMAIN tasks :
          LET sl     == tasks[t].slug
              local  == LocalOf(sl)
              sent   == tasks'[t].payload
          IN  /\ ( /\ tasks[t].pc = "lookup" /\ tasks'[t].pc # "lookup"
                   /\ tasks'[t].lookup # "failed"
                   /\ remote[sl].present
                   /\ \/ options.force
                      \/ hash(jsonToPage(remote[sl].json, sl, "", "null")) # hash(local)
                   /\ ~options.dryRun )
                 => /\ tasks'[t].pc = "put" /\ tasks'[t].issued = "PUT"
                    /\ sent.id = remote[sl].id
                    /\ sent.category = remote[sl].category
                    /\ sent.parentDoc = remote[sl].parent
                    /\ sent.json.title = local.headers.title
                    /\ sent.json.excerpt = local.headers.excerpt
                    /\ sent.json.hidden = hidden(local.headers)
                    /\ sent.json.body = local.content
                    /\ sent.lastUpdatedHash = hash(local)
              /\ tasks'[t].issued \in {"none", "PUT", "POST"}
              /\ tasks[t].issued # "none" => tasks'[t].issued = tasks[t].issued
    ]_vars

\* A forced update of a page whose hashes agree has been served, and the page
\* still has the identifier it had
C21_Witness ==
    \E t \in DOMAIN tasks :
        /\ tasks[t].issued = "PUT" /\ tasks[t].pc = "done"
        /\ options.force
        /\ hash(LoadedPage(t)) = hash(LocalOf(tasks[t].slug))
        /\ remote[tasks[t].slug].id = "id0"


\* The entries the declared slugs resolve to, in the order of the slugs: the
\* first page of the catalog with the slug gives the name; a slug with no page
\* gives no entry
RECURSIVE ResolvedRelated(_, _)
ResolvedRelated(slugs, catalog) ==
    IF slugs = <<>> THEN <<>>
    ELSE (IF \E i \in 1..Len(catalog) : catalog[i].slug = Head(slugs)
          THEN LET first == CHOOSE i \in 1..Len(catalog) :
                               /\ catalog[i].slug = Head(slugs)
                               /\ \A j \in 1..(i - 1) : catalog[j].slug # Head(slugs)
               IN  <<[slug |-> Head(slugs), name |-> catalog[first].headers.title,
                      type |-> "doc"]>>
          ELSE <<>>)
         \o ResolvedRelated(Tail(slugs), catalog)

\* C22: the related pages of the payload are, in the order of the declared
\* slugs, one entry (slug, title of the resolved page as name, type "doc")
\* for each declared slug that a page of the local catalog has; the other
\* slugs are dropped and the payload is still produced
C22_RelatedPagesResolved ==
    (called = "pageToJson" /\ result # <<>>) =>
        result.next = ResolvedRelated(arg[1].headers.next, arg[2])

\* A payload was built for a page that declares a slug no page has and then a
\* slug that two pages of the catalog have
C22_Witness ==
    /\ called = "pageToJson" /\ result # <<>>
    /\ arg[1].headers.next = <<"zz", "b">>
    /\ Len(arg[2]) = 3
    /\ Len(result.next) = 1


\* ---------------------------------------------------------------------------
\* Claims about the pages the filters are given
\* ---------------------------------------------------------------------------

\* C23 (as stated): no filter step changes the page object it is given: the
\* page the local catalog holds has, at every point of the pipeline, the
\* body, metadata and elements it was loaded with.  FooterFilter violates it:
\* Page.edit assigns the content of the page it is called on
C23_CatalogPageNeverMutated ==
    heldPage = orig


\* The element's matched text stands at the element's position in the
\* serialized form of the page
MatchesSources(pg, el) ==
    LET src == sources(pg.headers, pg.content)
    IN  /\ el.position + Len(el.text) <= Len(src)
        /\ SubSeq(src, el.position + 1, el.position + Len(el.text)) = el.text

\* C24 (as stated): whenever HostedFilesFilter hands a batch to
\* replaceElements, on push or on fetch and in either order of the two
\* filters, every element of the batch has its matched text at its position
\* in the serialized form that is rewritten.  The code violates it after
\* FooterFilter.rollback, which leaves the elements of the longer text
C24_NoStaleElementApplied ==
    /\ (fpc = "apply" /\ fidx <= Len(pipeline) /\ FilterAt(pipeline, fidx) = "hostedFiles")
          => \A k \in 1..Len(ApplyLinks(page)) : MatchesSources(page, ApplyLinks(page)[k])
    /\ (fpc = "rollback" /\ fidx <= Len(pipeline) /\ FilterAt(pipeline, fidx) = "hostedFiles")
          => \A k \in 1..Len(RollbackLinks(page, baseUrl)) :
                 MatchesSources(page, RollbackLinks(page, baseUrl)[k])


\* ---------------------------------------------------------------------------
\* Claims about the scope of the hostedFiles filter
\* ---------------------------------------------------------------------------

\* The text between the links of a serialized form: before the first link
\* (k = 0), between link k and the next one, after the last one
GapText(src, links, k) ==
    LET from == IF k = 0 THEN 1 ELSE links[k].position + Len(links[k].text) + 1
        to   == IF k = Len(links) THEN Len(src) ELSE links[k + 1].position
    IN  SubSeq(src, from, to)

\* The two pages hold the same links one by one, the raw text of each link
\* that is not in scope is the same, and so is all text outside the links
OnlyRewritten(before, after, InScope(_)) ==
    LET srcB == sources(before.headers, before.content)
        srcA == sources(after.headers, after.content)
        lb   == FindLinks(srcB)
        la   == FindLinks(srcA)
    IN  /\ Len(la) = Len(lb)
        /\ \A k \in 1..Len(lb) : ~InScope(lb[k]) => la[k].text = lb[k].text
        /\ \A k \in 0..Len(lb) : GapText(srcA, la, k) = GapText(srcB, lb, k)

\* C25: HostedFilesFilter.apply leaves the raw text of every mailto link,
\* xref link and remote link as it is, HostedFilesFilter.rollback the raw
\* text of every link but the remote url and image links whose href starts
\* with baseUrl, and both leave all text outside the links they rewrite
C25_OutOfScopeUntouched ==
    (called = "hostedFiles" /\ result # <<>>) =>
        /\ OnlyRewritten(arg[1], result.apply,
               LAMBDA l : l.type \in {"UrlLink", "Image"} /\ ~isRemote(l.href))
        /\ OnlyRewritten(arg[1], result.rollback,
               LAMBDA l : /\ l.type \in {"UrlLink", "Image"} /\ isRemote(l.href)
                          /\ StartsWith(l.href, arg[2]))

\* The filter was called on a page with an xref link, a mailto link and a
\* rehomed link, which its rollback rewrote
C25_Witness ==
    /\ called = "hostedFiles" /\ result # <<>>
    /\ \E k \in 1..Len(arg[1].elements) : arg[1].elements[k].type = "XrefLink"
    /\ \E k \in 1..Len(arg[1].elements) : arg[1].elements[k].type = "MailtoLink"
    /\ \E k \in 1..Len(arg[1].elements) : StartsWith(arg[1].elements[k].href, arg[2])
    /\ result.rollback.content # arg[1].content


\* ---------------------------------------------------------------------------
\* Claims about the calls of a push
\* ---------------------------------------------------------------------------

\* C26 (as stated): the parent resolution of a push issues finitely many
\* remote calls, also when a page declares itself as its parent: the
\* pushPage calls of a run, each of which starts with a lookup, stay below
\* the number the model allows.  The code violates it for the page read from
\* docs/cat/a/a.md, whose createPage calls pushPage for the page itself
C26_PushTerminates ==
    Len(tasks) < MaxTasks


\* C27 (as stated): the prune of a push requests no DELETE for the slug of a
\* page of the local selection being pushed, wherever the remote document
\* with that slug sits.  The code violates it: Page.notIn compares paths, and
\* the path of a remote document is made of its remote category and parent
C27_PruneSparesPushedSlugs ==
    \A sl \in Range(RemoteSlugs) :
        deleteCalls[sl] # "none" => \A j \in 1..Len(Selected) : Selected[j].slug # sl


\* C28 (as stated): within one push at most one create call is issued for a
\* slug, under every interleaving, also for an absent page that is pushed by
\* the loop and is the parent of another pushed page.  The code violates it:
\* ensurePageExists pushes the parent again while its first POST is pending
C28_AtMostOneCreate ==
    \A sl \in Range(RemoteSlugs) :
        Cardinality({t \in DOMAIN tasks : tasks[t].slug = sl /\ tasks[t].issued = "POST"}) <= 1


\* ---------------------------------------------------------------------------
\* Claims about what replaceElements keeps
\* ---------------------------------------------------------------------------

\* C29 (as stated): the page replaceElements returns, here for the batch of
\* HostedFilesFilter.apply (empty for a page without local link), has the
\* category, parent, slug, title, excerpt, hidden flag and related pages of
\* the page it was called on.  The code violates it: the page is parsed from
\* the serialized form, which holds title, excerpt and hidden only
C29_ReplaceKeepsMetadata ==
    (called = "hostedFiles" /\ result # <<>>) =>
        /\ result.apply.category = arg[1].category
        /\ result.apply.parent = arg[1].parent
        /\ result.apply.slug = arg[1].slug
        /\ result.apply.headers.title = arg[1].headers.title
        /\ result.apply.headers.excerpt = arg[1].headers.excerpt
        /\ Truthy(hidden(result.apply.headers)) = Truthy(hidden(arg[1].headers))
        /\ result.apply.headers.next = arg[1].headers.next


\* ---------------------------------------------------------------------------
\* Claims about the catalog
\* ---------------------------------------------------------------------------

\* The positions of the pages that satisfy all the predicates
AllHold(pages, filters) ==
    {i \in 1..Len(pages) : \A f \in 1..Len(filters) : Satisfies(filters[f], pages[i])}

\* C30: select(p1, ..., pn) returns the pages of the catalog that satisfy
\* all the predicates, each once and in the order of the catalog, and leaves
\* the pages of the catalog as they were; find(p) returns the first page in
\* the order of the catalog that satisfies p, and none when no page does
C30_SelectAndFind ==
    (called = "select" /\ result # <<>>) =>
        LET kept    == AllHold(arg[1], arg[2])
            matches == AllHold(arg[1], <<arg[3]>>)
        IN  /\ Len(result.selected) = Cardinality(kept)
            /\ \A i \in kept :
                  result.selected[Cardinality({j \in kept : j <= i})] = arg[1][i]
            /\ result.pages = arg[1]
            /\ matches = {} => result.found = "undefined"
            /\ matches # {} =>
                  \E i \in matches : /\ result.found = arg[1][i]
                                     /\ \A j \in matches : i <= j

\* A catalog with two pages of slug b was narrowed by two predicates, of which
\* the second dropped a page the first had kept, and searched for slug b
C30_Witness ==
    /\ called = "select" /\ result # <<>>
    /\ Len(arg[1]) = 3 /\ Len(arg[2]) = 2
    /\ Len(result.selected) = 1
    /\ Cardinality(AllHold(arg[1], <<arg[2][1]>>)) = 2
    /\ Cardinality(AllHold(arg[1], <<arg[3]>>)) = 2

=============================================================================
